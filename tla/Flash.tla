-------------------------------- MODULE Flash --------------------------------
(***************************************************************************)
(* The internal flash and its only user, OBDH (flash.c, obdh.c).  Clients  *)
(* queue a request and wait for its status; OBDH serves one request at a   *)
(* time.  Flash can only be erased by the page, so Write_Flash copies each *)
(* page it touches to RAM, overlays the new bytes, erases the page and     *)
(* programs it again doubleword by doubleword.                             *)
(*                                                                         *)
(* Erasing and programming may fail, and power may be lost between any two *)
(* steps or in the middle of one.  main then restores the state of the OBC *)
(* from flash, and obdh_task its pointers.                                 *)
(*                                                                         *)
(* A cell stands for one or more bytes.  What is written is a version, one *)
(* more at each write; 0 is an erased cell and -1 one that was cut short.  *)
(***************************************************************************)
EXTENDS Integers, Sequences

CONSTANTS PageCells, WordCells, \* cells of a page and of a doubleword
          Size,        \* cells of the flash
          Items,       \* the places that clients write
          At, Length,  \* their first cell and number of cells
          StateItem,   \* the place of CURRENT_STATE_ADDR
          PointerItem, \* the place of HT_POINTER_ADDR
          MaxRequests, MaxFaults  \* bounds

ASSUME PagesAssumption ==
    /\ WordCells \in Nat \ {0} /\ PageCells \in Nat \ {0} /\ Size \in Nat
    /\ PageCells % WordCells = 0
ASSUME ItemsAssumption ==
    /\ At \in [Items -> Nat] /\ Length \in [Items -> Nat \ {0}]
    /\ \A i \in Items : At[i] + Length[i] <= Size
    /\ StateItem \in Items /\ PointerItem \in Items
\* The places of flash.h do not overlap, as long as no file is longer than its place.
ASSUME SeparateAssumption ==
    \A i, j \in Items : i # j => At[i] + Length[i] <= At[j] \/ At[j] + Length[j] <= At[i]
ASSUME BoundsAssumption == MaxRequests \in Nat /\ MaxFaults \in Nat

VARIABLES
    cells,     \* the flash
    queue,     \* obdh_queue
    op,        \* the request OBDH serves
    stage,     \* where Write_Flash is: "idle", "erase", "program"
    page,      \* page_addr
    word,      \* i, the offset in the page that is programmed next
    save,      \* dataSave, by address
    before,    \* history: the page as it was before it is rewritten
    stored,    \* history: the version of each place that Write_Flash wrote last to its end
    found,     \* history: what the last read of each place found
    boot,      \* the version of the state that main restored; 0 is OBC_STATE_BOOT
    cut,       \* history: the pages whose rewriting was cut short
    requests, faults   \* counters of the bounds

driver == <<op, stage, page, word, save, before>>
history == <<stored, found, cut>>
vars == <<cells, queue, driver, boot, history, requests, faults>>

-----------------------------------------------------------------------------
(* Addresses *)

Addresses == 0..Size - 1
Erased == 0
Torn == -1

PageAt(p) == {a \in Addresses : p <= a /\ a < p + PageCells}
Pages == {a \in Addresses : a % PageCells = 0}
Sectors == {PageAt(p) : p \in Pages}
WordAt(p, w) == {a \in Addresses : p + w <= a /\ a < p + w + WordCells}
Place(i) == {a \in Addresses : At[i] <= a /\ a < At[i] + Length[i]}

Parts == {Place(i) \cap PageAt(p) : i \in Items, p \in Pages} \ {{}}

\* data_addr & ~(FLASH_PAGE_SIZE - 1)
FirstPage(i) == At[i] - (At[i] % PageCells)

Request == [item : Items, kind : {"READ", "WRITE"}, version : Nat]
NoRequest == [item |-> StateItem, kind |-> "READ", version |-> 0]

Init ==
    /\ cells = [a \in Addresses |-> Erased] /\ queue = <<>>
    /\ op = NoRequest /\ stage = "setup" /\ page = 0 /\ word = 0
    /\ save = cells /\ before = cells
    /\ stored = [i \in Items |-> 0] /\ found = [i \in Items |-> {}] /\ cut = {} /\ boot = 0
    /\ requests = 0 /\ faults = 0

-----------------------------------------------------------------------------
(* Clients *)

\* OBDH_Write_Request and OBDH_Read_Request: each place has one client, which has one
\* request at a time.
Submit ==
    /\ requests < MaxRequests /\ requests' = requests + 1
    /\ \E i \in Items \ {PointerItem}, k \in {"READ", "WRITE"} :
           /\ \A n \in DOMAIN queue : queue[n].item # i
           /\ stage # "idle" => op.item # i
           /\ queue' = Append(queue, [item |-> i, kind |-> k, version |-> requests'])
    /\ UNCHANGED <<cells, driver, boot, history, faults>>

-----------------------------------------------------------------------------
(* OBDH *)

\* Wrong variant: the rest of the page is not copied before it is erased.
OverlayAlone(r, p) == [a \in Addresses |-> IF a \in Place(r.item) THEN r.version ELSE Erased]

Overlay(r, p) == [a \in Addresses |-> IF a \in Place(r.item) \cap PageAt(p) THEN r.version
                                      ELSE cells[a]]

\* The page at p, for request r: copied and overlaid.
StartPage(r, p) ==
    /\ op' = r /\ stage' = "erase" /\ page' = p /\ word' = 0
    /\ save' = Overlay(r, p) /\ before' = cells

\* Write_Flash gets to its end, and process_obdh answers HAL_OK.
AnswerWrite == stored' = [stored EXCEPT ![op.item] = op.version]

\* setup_obdh: pointers that are not marked valid are written anew.
Setup ==
    /\ stage = "setup"
    /\ IF \A a \in Place(PointerItem) : cells[a] > 0
       THEN stage' = "idle" /\ UNCHANGED <<op, page, word, save, before>>
       ELSE StartPage([item |-> PointerItem, kind |-> "WRITE", version |-> 1],
                      FirstPage(PointerItem))
    /\ UNCHANGED <<cells, queue, boot, history, requests, faults>>

ServeRead ==
    /\ stage = "idle" /\ queue # <<>> /\ Head(queue).kind = "READ"
    /\ queue' = Tail(queue)
    /\ found' = [found EXCEPT ![Head(queue).item] = {cells[a] : a \in Place(Head(queue).item)}]
    /\ UNCHANGED <<cells, driver, boot, stored, cut, requests, faults>>

ServeWrite ==
    /\ stage = "idle" /\ queue # <<>> /\ Head(queue).kind = "WRITE"
    /\ queue' = Tail(queue) /\ StartPage(Head(queue), FirstPage(Head(queue).item))
    /\ UNCHANGED <<cells, boot, history, requests, faults>>

\* Wrong variant: NbPages is 2.
EraseTwoPages ==
    /\ stage = "erase" /\ stage' = "program"
    /\ cells' = [a \in Addresses |-> IF a \in PageAt(page) \union PageAt(page + PageCells)
                                    THEN Erased ELSE cells[a]]
    /\ UNCHANGED <<queue, op, page, word, save, before, boot, history, requests, faults>>

Erase ==
    /\ stage = "erase" /\ stage' = "program"
    /\ cells' = [a \in Addresses |-> IF a \in PageAt(page) THEN Erased ELSE cells[a]]
    /\ UNCHANGED <<queue, op, page, word, save, before, boot, history, requests, faults>>

\* Wrong variant: page_addr is not advanced.
NextPageAgain ==
    IF page + PageCells < At[op.item] + Length[op.item]
    THEN /\ stage' = "erase" /\ word' = 0 /\ UNCHANGED <<op, page, save, before, stored>>
    ELSE /\ stage' = "idle" /\ AnswerWrite /\ UNCHANGED <<op, page, word, save, before>>

\* The next page that the request touches, or its end.
NextPage ==
    IF page + PageCells < At[op.item] + Length[op.item]
    THEN /\ op' = op /\ stage' = "erase" /\ page' = page + PageCells /\ word' = 0
         /\ save' = [a \in Addresses |-> IF a \in Place(op.item) \cap PageAt(page')
                                         THEN op.version ELSE cells'[a]]
         /\ before' = cells' /\ UNCHANGED stored
    ELSE /\ stage' = "idle" /\ AnswerWrite /\ UNCHANGED <<op, page, word, save, before>>

Program ==
    /\ stage = "program"
    /\ cells' = [a \in Addresses |-> IF a \in WordAt(page, word) THEN save[a] ELSE cells[a]]
    /\ IF word + WordCells < PageCells
       THEN word' = word + WordCells /\ UNCHANGED <<op, stage, page, save, before, stored>>
       ELSE NextPage
    /\ UNCHANGED <<queue, boot, found, cut, requests, faults>>

-----------------------------------------------------------------------------
(* Faults *)

\* What is left of the page when a step of Write_Flash does not get to its end.
Spoiled ==
    \/ UNCHANGED cells
    \/ /\ stage = "erase"
       /\ \E left \in {Erased, Torn} :
              cells' = [a \in Addresses |-> IF a \in PageAt(page) THEN left ELSE cells[a]]
    \/ /\ stage = "program"
       /\ cells' = [a \in Addresses |-> IF a \in WordAt(page, word) THEN Torn ELSE cells[a]]

\* HAL_FLASHEx_Erase or HAL_FLASH_Program fails: Write_Flash returns, the rest of the
\* page stays erased, and process_obdh reports HAL_OK as always.
FlashError ==
    /\ stage \in {"erase", "program"} /\ faults < MaxFaults /\ faults' = faults + 1
    /\ Spoiled /\ cut' = cut \union {page}
    /\ stage' = "idle"
    /\ UNCHANGED <<queue, op, page, word, save, before, boot, stored, found, requests>>

\* What main restores: a state out of range is OBC_STATE_BOOT.  A cell that was cut short
\* may read as anything.
Restored(v) == CASE v > 0 -> {v} [] v = Erased -> {0} [] v = Torn -> {0} \union 1..requests

PowerLoss ==
    /\ faults < MaxFaults /\ faults' = faults + 1
    /\ IF stage \in {"erase", "program"}
       THEN Spoiled /\ cut' = cut \union {page}
       ELSE UNCHANGED <<cells, cut>>
    /\ boot' \in Restored(cells'[At[StateItem]])
    /\ stage' = "setup" /\ queue' = <<>>
    /\ UNCHANGED <<op, page, word, save, before, stored, found, requests>>

-----------------------------------------------------------------------------

Obdh == Setup \/ ServeRead \/ ServeWrite \/ Erase \/ Program

Finished == requests = MaxRequests /\ queue = <<>> /\ stage = "idle" /\ UNCHANGED vars

Next == Submit \/ Obdh \/ FlashError \/ PowerLoss \/ Finished

Spec == Init /\ [][Next]_vars

\* OBDH is scheduled.
FairSpec == Spec /\ WF_vars(Obdh)

-----------------------------------------------------------------------------
(* Properties *)

TypeOK ==
    /\ cells \in [Addresses -> Int] /\ save \in [Addresses -> Int] /\ before \in [Addresses -> Int]
    /\ queue \in Seq(Request) /\ op \in Request /\ stage \in {"setup", "idle", "erase", "program"}
    /\ page \in Pages /\ word \in 0..PageCells - WordCells
    /\ stored \in [Items -> Nat] /\ found \in [Items -> SUBSET Int]
    /\ boot \in Nat /\ requests \in 0..MaxRequests /\ faults \in 0..MaxFaults

\* What the flash amounts to: of a page that is being rewritten, what dataSave was
\* made from.
Kept(a) == IF stage \in {"erase", "program"} /\ a \in PageAt(page) THEN before[a] ELSE cells[a]

\* A write that got to its end is in flash as long as no rewriting of its page was cut
\* short, by an error or a loss of power, whatever else is written to the page.
KeptInFlash ==
    \A i \in Items : \A a \in Place(i) :
        (a - (a % PageCells)) \notin cut => Kept(a) >= stored[i]

\* The state that main restores is the one saved last, or the one that was being saved,
\* and never one from before, unless the rewriting of its page was cut short.
BootsAsSaved ==
    stage = "setup" /\ FirstPage(StateItem) \notin cut /\ faults > 0 => boot >= stored[StateItem]

\* As long as nothing fails, a read finds one version whole: never a page that is erased
\* or half programmed, nor parts of two writes.
ReadsAreWhole ==
    faults = 0 => \A i \in Items : found[i] # {} => \E v \in 0..requests : found[i] = {v}

\* What was answered is what flash holds, what main restores and what a read finds.
AnsweredIsKept == KeptInFlash /\ BootsAsSaved /\ ReadsAreWhole

\* The detailed writing of pages implements a store in which each page changes at once, in
\* nothing but the bytes written, and a fault destroys one page at most.
Store == INSTANCE StableStore WITH
    mem <- [a \in Addresses |-> Kept(a)], Cells <- Addresses
WritesAreIsolated == Store!Spec

\* The request of a state change does not wait for ever: it is answered, or lost with the
\* power, however many other requests are before it and however many pages they take.
Waits(i) == \/ \E n \in DOMAIN queue : queue[n].item = i
            \/ stage \in {"erase", "program"} /\ op.item = i
RequestsAnswered == Waits(StateItem) ~> ~Waits(StateItem)

=============================================================================
