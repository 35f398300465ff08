----------------------------- MODULE MCTarCalls -----------------------------
(* Instances of TarCalls that replay call sequences on the boot disk of     *)
(* MCTar, one per configuration.                                            *)
EXTENDS TarCalls

desktop == <<1, 2>>
shell == <<3, 4>>
libc == <<5>>
libc6 == <<5, 6>>      \* a name that libc is a prefix of
empty == <<7>>         \* an empty file (or a directory entry)

Names == {desktop, shell, libc, libc6, empty}

BootDisk == <<[name |-> desktop, size |-> 10], [name |-> shell, size |-> 13],
              [name |-> libc, size |-> 6]>>

ElfOf == [n \in Names |->
            IF n = shell THEN [phoff |-> 2, phnum |-> 1, dynamic |-> TRUE,
                               loads |-> << [off |-> 0, len |-> 5], [off |-> 8, len |-> 5] >>]
            ELSE IF n \in {libc, libc6} THEN [phoff |-> 2, phnum |-> 1, dynamic |-> TRUE,
                                             loads |-> << [off |-> 0, len |-> 4] >>]
            ELSE [phoff |-> 0, phnum |-> 0, loads |-> <<>>, dynamic |-> FALSE]]

\* MCTarRead: one program reading the shell a byte at a time
ReadArchives == {BootDisk}
ReadThreads == {"prog"}
ReadProcOf == [t \in ReadThreads |-> 1]
ReadKind == [t \in ReadThreads |-> "any"]
ReadLoads == [t \in ReadThreads |-> <<shell>>]
ReadScript == [t \in ReadThreads |-> <<[op |-> "read", arg |-> 1],
                                       [op |-> "read", arg |-> 1],
                                       [op |-> "read", arg |-> 1]>>]

\* MCTarRace: two user processes running the ELF loader at the same time
RaceThreads == {"u1", "u2"}
RaceProcOf == [t \in RaceThreads |-> IF t = "u1" THEN 1 ELSE 2]
RaceKind == [t \in RaceThreads |-> "elf"]
RaceLoads == [t \in RaceThreads |-> IF t = "u1" THEN <<shell>> ELSE <<libc>>]
NoScript == [t \in RaceThreads |-> <<>>]

\* MCTarEmpty: a program opening an empty file, then the library
EmptyArchives == {BootDisk \o <<[name |-> empty, size |-> 0]>>}
EmptyLoads == [t \in ReadThreads |-> <<empty, libc>>]
EmptyScript == [t \in ReadThreads |-> <<>>]

\* MCTarPrefix: the shell's library is packed after a longer name it prefixes
PrefixArchives == {<<[name |-> shell, size |-> 13], [name |-> libc6, size |-> 6],
                     [name |-> libc, size |-> 6]>>}
PrefixThreads == {"user"}
PrefixProcOf == [t \in PrefixThreads |-> 1]
PrefixKind == [t \in PrefixThreads |-> "elf"]
PrefixLoads == [t \in PrefixThreads |-> <<shell, libc>>]
PrefixScript == [t \in PrefixThreads |-> <<>>]
=============================================================================
