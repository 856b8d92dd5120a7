------------------------------- MODULE Timing -------------------------------
(***************************************************************************)
(* Time on air and the timeouts made of it (timing.c), for every link that *)
(* validate of lora_cfg.c lets through and preambles up to MaxPreamble.    *)
(* Times are in integers, as in the code; a bandwidth is in kHz, and all   *)
(* are whole.                                                              *)
(***************************************************************************)
EXTENDS Integers

MaxPreamble == 1000     \* a bound: the code checks none, and overflows from 32764

BwKhz == [code \in 0..2 |-> 125 * 2^code]     \* bw_code_to_hz

Links == [sf : 7..12, bw : 0..2, cr : 1..4, preamble : {8, 64, MaxPreamble}, crc : {0, 1}]

SymbolUs(l) == (2^l.sf * 1000) \div BwKhz[l.bw]

Ceiling(n, d) == (n + d - 1) \div d

\* The symbols after the preamble, with low data rate optimisation (de = 1) or without.
Symbols(l, bytes, de) ==
    LET num == 8 * bytes - 4 * l.sf + 28 + 16 * l.crc
    IN  8 + IF num > 0 THEN Ceiling(num, 4 * (l.sf - 2 * de)) * (l.cr + 4) ELSE 0

LoraToaMs(l, bytes) ==
    Ceiling(((l.preamble * 4 + 17) * SymbolUs(l)) \div 4
            + Symbols(l, bytes, IF l.sf >= 11 THEN 1 ELSE 0) * SymbolUs(l), 1000)

AckTimeoutMs(l, len) == 2 * LoraToaMs(l, len) + LoraToaMs(l, 8) + 200

\* arq_run_dl: of a window of DATA
WindowTimeoutMs(l, window, block) ==
    window * LoraToaMs(l, 3 + block) + LoraToaMs(l, 12) + 500

-----------------------------------------------------------------------------
(* What the other modules rely on *)

AckBytes == 16     \* header, three bytes, tag; the code counts 8
FrameBytes == {16, 21, 64, 255}

\* The radio driver turns the optimisation on for symbols of 16 ms or more.
AirtimeUs(l, bytes) ==
    ((l.preamble * 4 + 17) * SymbolUs(l)) \div 4
    + Symbols(l, bytes, IF SymbolUs(l) >= 16000 THEN 1 ELSE 0) * SymbolUs(l)

\* The estimate is never below the time on air, whatever the radio does about low data rates.
ASSUME EstimateCoversAirtime ==
    \A l \in Links, bytes \in FrameBytes : LoraToaMs(l, bytes) * 1000 >= AirtimeUs(l, bytes)

\* A frame is answered within the timeout of its exchange, with 100 ms for the other side.
ASSUME TimeoutCoversAnswer ==
    \A l \in Links, len \in FrameBytes :
        AckTimeoutMs(l, len) * 1000 >= AirtimeUs(l, len) + AirtimeUs(l, AckBytes) + 100000

\* A DATA_ACK of 12 bytes of payload comes within the timeout of a window, even of one block.
ASSUME WindowTimeoutCoversAnswer ==
    \A l \in Links, block \in {1, 32, 200} :
        WindowTimeoutMs(l, 1, block) * 1000 >= AirtimeUs(l, 25) + 100000

=============================================================================
