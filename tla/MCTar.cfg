\* The boot sequence's file reads: kmain loads the wallpaper, then the
\* shell process's ELF loader loads the shell and its library.
SPECIFICATION Spec
CONSTANTS
    SECT = 4
    Archives <- MCArchives
    MaxFiles = 3
    MAX_PROC_FILES = 5
    Threads = {"kmain", "user"}
    ProcOf <- MCProcOf
    Kind <- MCKind
    Loads <- MCLoads
    ElfImage <- MCElfImage
    EHDR_LEN = 2
    PHDR_LEN = 1
    TGA_HDR_LEN = 2
    TGA_CHUNK = 8
INVARIANTS TypeOK ReadsMatchFile
PROPERTIES LoadersFinish
