--------------------------- MODULE MCOptionSyntax ---------------------------
(* Plain lines, and one line for each way that they may go wrong. *)
EXTENDS OptionSyntax

MCOldConfig == [fpga |-> 7, flash |-> 7, prog |-> TRUE]

MCLines ==
  {<<"FPGA", "=", "1", "5", "nl">>,
   <<"FPGA", "=", "sp", "9", "sp", "cr", "nl">>,
   <<"FLASH", "=", "1", "nl">>,
   <<"PROG", "=", "sp", "NO", "cr", "nl">>,
   <<"PROG", "=", "YES", "nl">>,
   <<"FPGA", "=", "0", "1", "nl">>,          \* octal
   <<"FLASH", "=", "0", "x", "1", "nl">>,    \* hexadecimal
   <<"FLASH", "=", "nl">>,                   \* no value
   <<"FPGA", "nl">>,                         \* no "="
   <<"0", "1", "5", "nl">>,                  \* no name
   <<"FPGA", "=", "1", "#", "nl">>,          \* rubbish behind the value
   <<"PROG", "=", "#", "nl">>,
   <<"#", "FLASH", "=", "5", "nl">>,         \* a name that is not at the start
   <<"FLASH", "=", "5">>,                    \* no end of line
   <<"FLASH", "=", "sp", "1", "sp", "5", "nl">>,  \* a blank in the value
   <<"PROG", "=", "NO", "#", "nl">>,         \* rubbish behind the word
   <<"FLASH", "sp", "=", "9", "nl">>,        \* a blank before "="
   <<"FPGA", "=", "FLASH", "=", "9", "nl">>, \* two names
   <<"nl">>, <<"sp", "cr", "nl">>}           \* empty lines

=============================================================================
