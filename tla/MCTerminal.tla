----------------------------- MODULE MCTerminal -----------------------------
EXTENDS Terminal

\* a letter that starts "help", another letter, backspace and enter
MCNL == "nl"
MCBS == "bs"
MCKeys == {"h", "x", MCBS, MCNL}

\* the fixed texts the shell prints, one glyph each
MCBanner == <<"b">>
MCUnrec == <<"u">>
MCHelpWord == <<"h">>
MCHelpLines == <<<<"s">>, <<"t">>>>
=============================================================================
