----------------------------- MODULE MCFirmware -----------------------------
(***************************************************************************)
(* The one ROM there is, resources/CP1.bin.  Its tables are those of       *)
(* cp1.asm: keypress_jmpp_table (85-106), read at wait_key with the code   *)
(* of a key, and opcode_jmpp_table (981-1006), read with an opcode that    *)
(* step_handler found to be at most 24.                                    *)
(***************************************************************************)
EXTENDS Integers, Sequences

FirmwareTables == 10..30 \cup 1024..1048

\* The bytes of CP1.bin.
Dump == <<
  4,41,0,147,0,0,0,68,92,0,134,209,209,209,209,209,209,209,209,209,209,33,235,35,37,134,31,39,195,
  152,191,196,3,36,255,228,14,196,34,36,196,184,30,176,0,184,32,187,40,176,0,24,235,49,190,0,191,
  0,184,26,176,1,212,180,154,207,154,191,154,239,138,32,184,0,35,15,144,184,2,35,255,144,154,223,
  138,16,184,0,35,13,144,184,1,35,255,144,184,3,144,154,95,138,16,184,19,35,90,144,39,128,211,90,
  184,59,198,148,176,127,187,4,184,63,35,255,160,24,235,124,154,79,116,40,37,85,184,30,240,198,
  134,185,68,161,35,10,96,176,0,179,176,255,4,118,254,198,187,211,3,150,201,184,39,116,56,184,58,
  240,82,185,184,32,176,115,184,39,186,2,52,78,184,56,160,190,0,4,134,36,70,212,180,4,134,212,234,
  4,134,52,121,190,0,4,134,188,1,196,253,52,121,4,217,254,198,205,151,3,251,246,201,254,3,39,168,
  185,68,241,7,160,170,52,170,4,134,36,70,36,12,254,211,3,150,233,35,247,116,51,184,39,116,56,184,
  58,240,82,231,184,39,186,2,52,78,175,190,0,184,32,176,121,4,134,254,211,5,150,68,184,58,240,114,
  74,184,39,186,1,52,78,151,169,3,231,246,74,184,41,186,2,52,78,182,74,172,249,170,255,116,10,250,
  145,25,252,145,184,59,255,208,198,62,31,36,4,35,8,116,46,36,4,4,201,35,251,116,51,188,4,196,253,
  249,171,185,60,188,3,240,161,24,25,236,84,251,169,184,60,240,151,133,247,246,118,247,246,118,96,
  246,118,247,246,118,24,96,246,118,160,234,97,240,131,149,151,131,186,6,184,32,176,0,24,234,125,
  131,240,84,217,182,147,244,235,252,244,235,250,244,235,190,0,131,133,36,138,129,184,57,160,190,
  0,133,149,52,131,25,129,184,57,160,190,2,52,131,131,184,33,185,34,187,4,241,160,24,25,235,176,
  35,0,106,227,184,37,160,30,131,133,116,243,36,241,52,121,116,243,184,32,176,35,137,192,184,58,
  188,60,187,250,116,182,240,18,191,236,210,39,116,10,116,189,182,191,184,59,240,242,233,36,241,
  35,255,116,10,116,189,182,253,153,127,52,121,184,32,176,99,190,0,4,134,36,191,35,247,116,51,254,
  198,39,211,3,150,64,184,39,116,56,184,58,240,82,58,184,39,186,2,52,78,175,52,121,255,116,10,52,
  150,184,32,176,57,4,134,151,255,3,1,175,246,56,184,59,240,242,26,255,242,60,68,26,191,255,36,70,
  191,127,68,58,254,211,1,198,71,4,201,184,39,240,211,9,150,69,52,121,184,32,176,57,184,7,190,2,
  52,131,4,134,213,47,35,224,98,234,107,185,37,189,254,186,6,188,53,138,160,154,239,39,184,1,144,
  253,184,3,144,241,184,1,144,138,15,12,151,187,4,103,246,136,235,129,68,188,250,7,231,231,23,43,
  55,23,107,174,242,188,252,168,254,208,198,184,254,160,254,211,15,198,194,254,211,14,198,200,253,
  231,173,201,204,184,58,240,146,206,210,212,154,127,47,197,37,147,190,0,68,166,252,168,176,0,68,
  166,35,1,116,46,68,166,35,2,116,46,68,166,154,223,138,16,68,176,138,128,68,180,131,151,188,0,3,
  246,230,228,151,28,68,220,3,10,170,151,252,188,0,3,246,230,243,151,28,68,235,3,10,44,151,131,0,
  136,196,0,0,0,0,30,63,6,91,79,102,109,125,39,127,111,242,25,171,35,239,116,51,138,32,154,239,
  251,231,169,131,3,128,151,171,35,16,116,46,138,16,154,223,251,100,22,39,169,145,233,42,131,184,
  58,64,160,131,184,58,80,160,131,186,2,52,78,182,72,242,65,131,184,59,240,242,64,100,73,133,35,4,
  116,46,100,64,133,242,83,131,184,59,240,242,82,149,100,82,129,171,116,79,182,100,251,116,10,131,
  129,171,116,79,182,120,251,116,10,129,150,120,25,184,54,240,150,120,24,131,236,130,18,127,39,
  131,35,1,131,119,100,121,35,64,116,46,35,239,116,51,138,160,154,239,131,35,80,116,46,154,223,
  138,144,131,184,54,176,0,24,160,131,170,151,167,39,247,234,166,170,240,198,177,250,65,161,131,
  250,55,81,100,175,186,200,234,184,235,182,131,185,0,184,58,240,18,235,151,184,8,129,103,230,221,
  153,127,187,30,116,182,137,128,187,60,116,182,232,200,233,191,151,131,153,127,187,60,116,182,
  137,128,187,30,116,182,100,215,133,149,35,254,116,51,100,219,35,254,116,51,131,0,239,84,40,210,
  54,0,5,25,52,235,123,70,95,79,243,27,143,29,150,31,33,166,193,35,37,39,109,116,159,41,43,45,196,
  89,164,11,164,43,164,82,164,62,164,106,164,141,164,164,164,201,164,239,164,249,129,3,0,25,179,
  35,1,116,51,184,56,240,184,59,208,198,68,133,149,196,47,196,115,184,54,176,0,24,129,160,196,47,
  116,91,182,93,184,54,240,145,24,25,240,145,196,47,196,93,116,91,182,93,184,54,129,160,24,25,129,
  160,196,47,116,91,182,93,25,132,95,116,91,182,93,25,132,79,129,198,141,170,187,1,188,1,189,200,
  237,133,236,131,235,129,234,127,196,47,129,184,56,171,160,196,57,184,58,240,178,157,196,47,132,
  143,116,91,182,93,25,132,143,184,54,240,150,189,151,24,240,3,254,246,189,240,198,185,176,0,196,
  47,176,1,196,47,188,5,196,253,184,54,240,150,189,151,24,240,3,254,246,189,116,91,182,93,129,150,
  189,151,25,129,3,254,246,189,184,55,240,198,187,129,198,231,176,1,196,47,176,0,196,47,212,234,
  196,47,164,15,164,5,116,101,182,93,150,189,118,239,151,129,96,246,241,160,196,47,196,93,188,6,
  196,253,132,189,165,181,132,243,165,129,171,208,198,39,251,198,37,55,151,3,1,96,230,5,151,240,7,
  235,33,160,196,47,176,0,196,47,244,225,116,101,182,3,150,9,129,208,198,58,151,196,47,244,230,
  164,55,244,225,116,101,182,3,150,9,129,198,55,55,151,3,1,96,230,58,164,55,244,225,116,101,182,3,
  150,9,240,198,55,55,151,3,1,171,129,107,230,58,164,55,164,116,129,150,104,137,255,9,116,155,196,
  47,172,151,3,247,246,9,252,170,151,167,39,247,234,127,185,63,65,57,9,116,121,116,155,196,47,184,
  55,129,170,185,63,150,154,240,161,57,196,47,151,3,247,246,9,250,116,162,164,151,129,170,116,133,
  185,64,188,2,184,55,250,150,191,240,161,44,168,44,144,35,191,116,51,154,127,196,47,151,3,247,
  246,231,250,116,162,164,179,129,172,116,146,184,2,252,150,221,128,116,155,35,191,116,51,154,127,
  196,47,151,3,247,246,231,128,116,121,164,211,35,191,116,51,154,127,132,189,129,170,116,146,185,
  65,188,1,164,172,129,170,116,146,185,66,188,3,164,172,254,211,1,150,20,184,39,240,211,9,198,120,
  240,211,8,198,122,52,121,190,0,184,58,240,18,79,184,58,240,50,83,184,56,240,116,10,151,129,3,
  231,246,89,132,47,151,184,56,240,3,1,160,171,246,93,184,59,240,242,65,251,242,93,182,115,184,58,
  240,50,111,184,58,240,18,97,196,34,116,243,196,29,35,253,116,51,196,34,188,2,196,253,188,3,196,
  253,35,239,116,51,138,32,154,239,185,0,52,150,68,33,4,152,4,134,133,190,0,4,152,196,193,196,124,
  52,121,116,243,184,67,16,240,188,4,187,250,116,182,236,134,7,150,132,151,184,5,173,190,2,52,131,
  185,58,241,18,167,253,3,1,246,169,187,1,116,182,196,144,116,243,190,0,184,67,253,83,7,160,151,4,
  134,52,121,184,32,176,115,184,56,190,2,52,131,131,52,121,187,255,116,182,187,255,116,182,185,9,
  188,10,35,0,105,227,187,6,184,37,160,200,235,215,187,255,116,182,187,255,116,182,201,236,207,
  190,0,4,134,190,0,133,149,184,54,52,131,184,55,190,2,52,131,184,32,176,119,131,52,121,151,133,
  165,184,32,176,113,184,4,190,2,52,131,4,134,52,121,116,243,184,32,176,28,39,116,10,153,191,137,
  128,184,58,240,18,120,9,242,29,39,169,173,184,8,244,124,118,113,244,208,248,211,8,150,42,184,58,
  240,18,120,184,8,249,150,42,184,59,240,242,70,228,100,35,128,116,10,39,169,173,184,8,244,124,
  118,116,244,208,248,211,8,150,79,184,58,240,18,120,184,8,249,150,79,52,121,184,32,176,92,151,
  133,165,190,0,4,134,249,198,29,188,7,196,253,116,243,228,100,39,170,171,151,133,165,137,128,9,
  242,147,250,3,1,246,197,170,188,100,244,199,228,132,188,200,244,199,9,242,156,228,135,188,100,
  244,199,9,242,189,188,200,244,199,9,242,189,250,3,253,230,197,151,251,3,253,230,197,151,250,55,
  107,230,188,149,131,251,3,1,246,197,171,228,156,181,131,0,0,0,0,0,0,236,199,131,151,182,222,253,
  103,173,232,221,253,145,201,184,8,131,167,228,211,35,223,116,51,131,35,32,116,46,131,171,35,0,
  107,227,171,254,3,32,23,168,251,160,30,131,109,214,120,235,0,2 >>
CP1 == [addr \in 0..Len(Dump) - 1 |-> Dump[addr + 1]]
=============================================================================
