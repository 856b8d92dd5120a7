----------------------------- MODULE Flash_proofs -----------------------------
(***************************************************************************)
(* What flash keeps and what is read from it: Write_Flash, for every       *)
(* layout and any number of requests, errors and losses of power, and a    *)
(* download, for every list of requests and any number of writes, losses   *)
(* and interruptions.                                                      *)
(***************************************************************************)
EXTENDS Flash, ArqDownlink, WellFoundedInduction, TLAPS

-----------------------------------------------------------------------------
(* Pages and doublewords *)

LEMMA Division ==
    ASSUME NEW n \in Nat \ {0}, NEW a \in Int
    PROVE  a \div n \in Int /\ a = n * (a \div n) + (a % n) /\ a % n \in 0..n - 1
OBVIOUS

LEMMA Multiple == ASSUME NEW n \in Nat \ {0}, NEW q \in Int, NEW a \in Int, a = n * q PROVE a % n = 0
OBVIOUS

LEMMA RoundDown ==
    ASSUME NEW n \in Nat \ {0}, NEW a \in Nat
    PROVE  /\ (a - (a % n)) % n = 0
           /\ a - (a % n) \in Nat /\ a - (a % n) <= a /\ a < a - (a % n) + n
<1>1. a \div n \in Int /\ a - (a % n) = n * (a \div n)
  BY Division
<1>2. (a - (a % n)) % n = 0
  BY <1>1, Multiple
<1>3. a \div n >= 0
  BY Division
<1>4. a - (a % n) >= 0
  BY <1>1, <1>3
<1>5. QED
  BY <1>2, <1>4, Division

LEMMA NextMultiple == ASSUME NEW n \in Nat \ {0}, NEW a \in Nat, a % n = 0 PROVE (a + n) % n = 0
<1> DEFINE q == a \div n
<1>1. q \in Int /\ a = n * q
  BY Division
<1> HIDE DEF q
<1>2. n * (q + 1) = n * q + n
  BY <1>1
<1>3. q + 1 \in Int /\ a + n = n * (q + 1) /\ a + n \in Int
  BY <1>1, <1>2
<1> DEFINE r == q + 1
           b == a + n
<1>4. r \in Int /\ b \in Int /\ b = n * r
  BY <1>3
<1> HIDE DEF r, b
<1>5. b % n = 0
  BY <1>4, Multiple
<1>6. QED
  BY <1>5 DEF b

\* An address of a page is rounded down to it.
LEMMA PageOf ==
    ASSUME NEW n \in Nat \ {0}, NEW a \in Nat, NEW p \in Nat, p % n = 0, p <= a, a < p + n
    PROVE  a - (a % n) = p
OBVIOUS

\* A whole number of doublewords makes a page.
LEMMA WordFits ==
    ASSUME NEW n \in Nat \ {0}, NEW m \in Nat, NEW w \in Nat, m % n = 0, w % n = 0, w < m
    PROVE  w + n <= m
<1>1. m \div n \in Int /\ w \div n \in Int /\ m = n * (m \div n) /\ w = n * (w \div n)
  BY Division
<1>2. w \div n < m \div n
  BY <1>1
<1>3. (w \div n) + 1 <= m \div n
  BY <1>1, <1>2
<1>4. n * ((w \div n) + 1) <= n * (m \div n)
  BY <1>1, <1>3
<1>5. QED
  BY <1>1, <1>4

LEMMA FirstPageIs ==
    ASSUME NEW i \in Items
    PROVE  /\ FirstPage(i) \in Pages /\ FirstPage(i) <= At[i] /\ At[i] < FirstPage(i) + PageCells
           /\ At[i] \in Place(i) /\ At[i] \in Addresses
<1>1. At[i] \in Nat /\ Length[i] \in Nat \ {0} /\ At[i] + Length[i] <= Size /\ PageCells \in Nat \ {0}
        /\ Size \in Nat
  BY ItemsAssumption, PagesAssumption
<1>2. /\ FirstPage(i) % PageCells = 0 /\ FirstPage(i) \in Nat
      /\ FirstPage(i) <= At[i] /\ At[i] < FirstPage(i) + PageCells
  BY <1>1, RoundDown DEF FirstPage
<1>3. QED
  BY <1>1, <1>2 DEF Pages, Addresses, Place

LEMMA InPage ==
    ASSUME NEW p \in Pages, NEW a \in PageAt(p)
    PROVE  a - (a % PageCells) = p
<1>1. /\ PageCells \in Nat \ {0} /\ a \in Nat /\ p \in Nat /\ p % PageCells = 0 /\ p <= a
      /\ a < p + PageCells
  BY PagesAssumption DEF Pages, PageAt, Addresses
<1>2. QED
  BY <1>1, PageOf

\* A doubleword of a page is within the page.
LEMMA WordInPage ==
    ASSUME NEW p \in Pages, NEW w \in Nat, w + WordCells <= PageCells
    PROVE  WordAt(p, w) \subseteq PageAt(p)
BY PagesAssumption DEF WordAt, PageAt, Addresses, Pages

LEMMA Separate ==
    ASSUME NEW i \in Items, NEW j \in Items, NEW a \in Place(i), a \in Place(j)
    PROVE  i = j
BY SeparateAssumption, ItemsAssumption DEF Place, Addresses

-----------------------------------------------------------------------------
(* The inductive invariant *)

Writing == stage \in {"erase", "program"}

Served == [item : Items \ {PointerItem}, kind : {"READ", "WRITE"}, version : Nat]

Types ==
    /\ cells \in [Addresses -> Int] /\ save \in [Addresses -> Int] /\ before \in [Addresses -> Int]
    /\ stored \in [Items -> Nat] /\ found \in [Items -> SUBSET Int]
    /\ queue \in Seq(Served) /\ stage \in {"setup", "idle", "erase", "program"}
    /\ requests \in Nat /\ faults \in Nat

\* The requests that wait are of different places, and newer than what was written there.
Waiting ==
    /\ \A n \in 1..Len(queue) : /\ queue[n].version <= requests
                                /\ queue[n].version >= stored[queue[n].item]
                                /\ Writing => queue[n].item # op.item
    /\ \A i \in Items \ {PointerItem} : stored[i] <= requests
    /\ \A m, n \in 1..Len(queue) : m # n => queue[m].item # queue[n].item

\* Where Write_Flash is: the page is one that the request touches, the pages before it are
\* written, dataSave is the page with the new bytes over it, and flash has its first words.
Rewriting == Writing =>
    /\ op \in Request /\ page \in Pages
    /\ At[op.item] < page + PageCells /\ page < At[op.item] + Length[op.item]
    /\ op.version >= stored[op.item]
    /\ IF op.item = PointerItem THEN op.version = 1 ELSE op.version <= requests
    /\ \A a \in Place(op.item) : a < page => cells[a] = op.version
    /\ \A a \in PageAt(page) : save[a] = IF a \in Place(op.item) THEN op.version ELSE before[a]
    /\ word \in Nat /\ word % WordCells = 0 /\ word + WordCells <= PageCells
    /\ stage = "erase" => word = 0
    /\ stage = "program" => \A a \in PageAt(page) : a < page + word => cells[a] = save[a]

\* While nothing fails, each place that is not being written holds one version whole.
Whole == faults = 0 =>
    \A i \in Items \ {PointerItem} :
        \/ Writing /\ op.item = i
        \/ \E v \in 0..requests : \A a \in Place(i) : Kept(a) = v

Inv == /\ Types /\ Waiting /\ Rewriting /\ Whole
       /\ stored[PointerItem] <= 1 /\ found[PointerItem] = {}
       /\ AnsweredIsKept

-----------------------------------------------------------------------------
(* What a step does to what is kept *)

\* Nothing changes.
KeepsAll == \A a \in Addresses : Kept(a)' = Kept(a)

\* One page takes the bytes of the request.
WritesPage == \A a \in Addresses :
    Kept(a)' = IF a \in Place(op.item) \cap PageAt(page) THEN op.version ELSE Kept(a)

\* One page is lost.
LosesPage == \A a \in Addresses \ PageAt(page) : Kept(a)' = Kept(a)

\* The end of a page.
PageDone == stage = "program" /\ Program /\ ~(word + WordCells < PageCells)

LEMMA EraseKeeps == ASSUME Erase PROVE KeepsAll
BY DEF Erase, KeepsAll, Kept, PageAt

LEMMA StartKeeps ==
    ASSUME Types, NEW r, NEW p, StartPage(r, p), UNCHANGED cells, ~Writing
    PROVE  KeepsAll
BY DEF StartPage, KeepsAll, Kept, Writing, Types

LEMMA SameKeeps ==
    ASSUME UNCHANGED <<cells, stage, page, before>>
    PROVE  KeepsAll
BY DEF KeepsAll, Kept

LEMMA ProgramCells ==
    ASSUME Types, Rewriting, Program
    PROVE  /\ Writing /\ op \in Request /\ page \in Pages /\ word \in Nat
           /\ WordAt(page, word) \subseteq PageAt(page)
           /\ cells' \in [Addresses -> Int]
           /\ \A a \in Addresses : cells'[a] = IF a \in WordAt(page, word) THEN save[a] ELSE cells[a]
<1>1. stage = "program" /\ Writing
  BY DEF Program, Writing
<1>2. op \in Request /\ page \in Pages /\ word \in Nat /\ word + WordCells <= PageCells
  BY <1>1 DEF Rewriting
<1>3. cells' = [a \in Addresses |-> IF a \in WordAt(page, word) THEN save[a] ELSE cells[a]]
  BY DEF Program
<1>4. WordAt(page, word) \subseteq PageAt(page)
  BY <1>2, WordInPage
<1>5. QED
  BY <1>1, <1>2, <1>3, <1>4 DEF Types

LEMMA WordKeeps ==
    ASSUME Types, Rewriting, Program, word + WordCells < PageCells
    PROVE  KeepsAll
<1>1. UNCHANGED <<stage, page, before>>
  BY DEF Program
<1>2. QED
  BY <1>1, ProgramCells DEF KeepsAll, Kept, Writing

LEMMA PageWritten ==
    ASSUME Types, Rewriting, PageDone
    PROVE  /\ WritesPage
           /\ \A a \in PageAt(page) : cells'[a] = IF a \in Place(op.item) THEN op.version ELSE before[a]
           /\ \A a \in Addresses \ PageAt(page) : cells'[a] = cells[a]
<1>1. Program /\ stage = "program" /\ Writing /\ ~(word + WordCells < PageCells)
  BY DEF PageDone, Writing
<1>2. /\ page \in Pages /\ word \in Nat /\ WordAt(page, word) \subseteq PageAt(page)
      /\ \A a \in Addresses : cells'[a] = IF a \in WordAt(page, word) THEN save[a] ELSE cells[a]
  BY <1>1, ProgramCells
<1>3. ASSUME NEW a \in PageAt(page) PROVE cells'[a] = save[a]
  <2>1. CASE a < page + word
    BY <1>1, <1>2, <2>1 DEF Rewriting, PageAt, WordAt
  <2>2. CASE ~(a < page + word)
    BY <1>1, <1>2, <2>2, PagesAssumption DEF PageAt, WordAt, Pages, Addresses
  <2>3. QED
    BY <2>1, <2>2
<1>4. \A a \in PageAt(page) : cells'[a] = IF a \in Place(op.item) THEN op.version ELSE before[a]
  BY <1>1, <1>3 DEF Rewriting
<1>5. \A a \in Addresses \ PageAt(page) : cells'[a] = cells[a]
  BY <1>2
<1>6. (stage' = "erase" /\ before' = cells') \/ stage' = "idle"
  BY <1>1 DEF Program, NextPage
<1>7. \A a \in Addresses : Kept(a)' = cells'[a]
  BY <1>6 DEF Kept
<1>8. WritesPage
  BY <1>1, <1>4, <1>5, <1>7 DEF WritesPage, Kept, Writing
<1>9. QED
  BY <1>4, <1>5, <1>8

LEMMA SpoiledLoses ==
    ASSUME Types, Rewriting, Writing, Spoiled, ~Writing'
    PROVE  LosesPage /\ cells' \in [Addresses -> Int] /\ page \in Pages
<1>1. page \in Pages /\ WordAt(page, word) \subseteq PageAt(page)
  BY WordInPage DEF Rewriting
<1>2. CASE UNCHANGED cells
  BY <1>1, <1>2 DEF LosesPage, Kept, Writing, Types
<1>3. CASE stage = "erase" /\ \E left \in {Erased, Torn} :
              cells' = [a \in Addresses |-> IF a \in PageAt(page) THEN left ELSE cells[a]]
  BY <1>1, <1>3 DEF LosesPage, Kept, Writing, Types, Erased, Torn
<1>4. CASE stage = "program" /\
           cells' = [a \in Addresses |-> IF a \in WordAt(page, word) THEN Torn ELSE cells[a]]
  BY <1>1, <1>4 DEF LosesPage, Kept, Writing, Types, Torn
<1>5. QED
  BY <1>2, <1>3, <1>4 DEF Spoiled

-----------------------------------------------------------------------------
(* The invariant holds in every state *)

LEMMA InitInv == Init => Inv
<1> SUFFICES ASSUME Init PROVE Inv
  OBVIOUS
<1>1. Types
  BY DEF Init, Types, Erased
<1>2. ~Writing /\ Waiting /\ Rewriting
  BY DEF Init, Writing, Waiting, Rewriting
<1>3. \A a \in Addresses : Kept(a) = 0
  BY DEF Init, Kept, Erased
<1>4. Whole
  BY <1>3 DEF Init, Whole, Place
<1>5. AnsweredIsKept
  BY <1>3 DEF Init, AnsweredIsKept, KeptInFlash, BootsAsSaved, ReadsAreWhole, Place
<1>6. QED
  BY <1>1, <1>2, <1>4, <1>5, ItemsAssumption DEF Inv, Init

\* A step that keeps all, and begins no write or one of an OBDH at rest.
LEMMA QuietInv ==
    ASSUME Inv, KeepsAll, Types', Waiting', Rewriting', requests' >= requests,
           Writing => Writing' /\ op' = op,
           UNCHANGED <<boot, stored, cut, faults>>,
           stage' = "setup" => stage = "setup",
           ReadsAreWhole', found'[PointerItem] = {}
    PROVE  Inv'
<1>1. Whole'
  <2>1. SUFFICES ASSUME faults' = 0, NEW i \in Items \ {PointerItem}
                 PROVE  \/ (Writing /\ op.item = i)'
                        \/ \E v \in 0..requests' : \A a \in Place(i) : Kept(a)' = v
    BY DEF Whole
  <2>2. CASE Writing /\ op.item = i
    BY <2>2
  <2>3. CASE \E v \in 0..requests : \A a \in Place(i) : Kept(a) = v
    <3>1. PICK v \in 0..requests : \A a \in Place(i) : Kept(a) = v
      BY <2>3
    <3>2. v \in 0..requests'
      BY DEF Inv, Types
    <3>3. \A a \in Place(i) : Kept(a)' = v
      BY <3>1 DEF KeepsAll, Place
    <3>4. QED
      BY <3>2, <3>3
  <2>4. QED
    BY <2>1, <2>2, <2>3 DEF Inv, Whole
<1>2. KeptInFlash'
  BY DEF Inv, AnsweredIsKept, KeptInFlash, KeepsAll, Place
<1>3. BootsAsSaved'
  BY DEF Inv, AnsweredIsKept, BootsAsSaved
<1>4. QED
  BY <1>1, <1>2, <1>3 DEF Inv, AnsweredIsKept

LEMMA SameReads ==
    ASSUME Inv, UNCHANGED <<found, faults>>, requests' \in Nat, requests' >= requests
    PROVE  ReadsAreWhole' /\ found'[PointerItem] = {}
<1>1. SUFFICES ASSUME faults = 0, NEW i \in Items, found[i] # {}
               PROVE  \E v \in 0..requests' : found[i] = {v}
  BY DEF ReadsAreWhole, Inv
<1>2. PICK v \in 0..requests : found[i] = {v}
  BY <1>1 DEF Inv, AnsweredIsKept, ReadsAreWhole
<1>3. v \in 0..requests'
  BY DEF Inv, Types
<1>4. QED
  BY <1>2, <1>3

LEMMA SubmitInv == ASSUME Inv, Submit PROVE Inv'
<1>1. PICK i \in Items \ {PointerItem}, k \in {"READ", "WRITE"} :
          /\ \A n \in DOMAIN queue : queue[n].item # i
          /\ stage # "idle" => op.item # i
          /\ queue' = Append(queue, [item |-> i, kind |-> k, version |-> requests'])
  BY DEF Submit
<1>2. /\ UNCHANGED <<cells, op, stage, page, word, save, before, boot, stored, found, cut, faults>>
      /\ requests' = requests + 1
  BY DEF Submit, driver, history
<1> DEFINE r == [item |-> i, kind |-> k, version |-> requests']
<1>3. queue \in Seq(Served) /\ requests \in Nat /\ stored[i] <= requests /\ stored[i] \in Nat
  BY DEF Inv, Types, Waiting
<1>4. r \in Served /\ r.item = i /\ r.version = requests + 1
  BY <1>2, <1>3 DEF Served
<1>5. queue' = Append(queue, r)
  BY <1>1
<1> HIDE DEF r
<1>6. /\ queue' \in Seq(Served) /\ Len(queue') = Len(queue) + 1 /\ Len(queue) \in Nat
      /\ queue'[Len(queue) + 1] = r /\ \A n \in 1..Len(queue) : queue'[n] = queue[n]
  BY <1>3, <1>4, <1>5
<1>7. Types'
  BY <1>2, <1>6 DEF Inv, Types
<1>8. Waiting'
  <2>1. ASSUME NEW n \in 1..Len(queue')
        PROVE  /\ queue'[n].version <= requests' /\ queue'[n].version >= stored'[queue'[n].item]
               /\ Writing' => queue'[n].item # op'.item
    <3>1. CASE n = Len(queue) + 1
      BY <1>1, <1>2, <1>3, <1>4, <1>6, <3>1 DEF Writing
    <3>2. CASE n \in 1..Len(queue)
      <4>1. queue[n] \in Served
        BY <1>3, <3>2
      <4>2. queue[n].version <= requests /\ queue[n].version >= stored[queue[n].item]
              /\ (Writing => queue[n].item # op.item)
        BY <3>2 DEF Inv, Waiting
      <4>3. QED
        BY <1>2, <1>3, <1>6, <3>2, <4>1, <4>2 DEF Writing, Served
    <3>3. QED
      BY <1>6, <3>1, <3>2
  <2>2. ASSUME NEW m \in 1..Len(queue'), NEW n \in 1..Len(queue'), m # n
        PROVE  queue'[m].item # queue'[n].item
    <3>1. CASE m \in 1..Len(queue) /\ n \in 1..Len(queue)
      BY <1>6, <2>2, <3>1 DEF Inv, Waiting
    <3>2. CASE ~(m \in 1..Len(queue) /\ n \in 1..Len(queue))
      BY <1>1, <1>3, <1>4, <1>6, <2>2, <3>2
    <3>3. QED
      BY <3>1, <3>2
  <2>3. \A j \in Items \ {PointerItem} : stored'[j] <= requests'
    BY <1>2, <1>3 DEF Inv, Waiting, Types
  <2>4. QED
    BY <2>1, <2>2, <2>3 DEF Waiting
<1>9. Rewriting'
  <2>1. (Writing' <=> Writing) /\ requests' = requests + 1 /\ requests \in Nat
    BY <1>2, <1>3 DEF Writing
  <2>2. QED
    BY <1>2, <2>1 DEF Inv, Rewriting, Request
<1>10. KeepsAll
  BY <1>2, SameKeeps
<1>11. ReadsAreWhole' /\ found'[PointerItem] = {}
  BY <1>2, <1>3, SameReads
<1>12. QED
  BY <1>2, <1>3, <1>7, <1>8, <1>9, <1>10, <1>11, QuietInv DEF Writing

\* The first page of a request that waited.
LEMMA StartRewriting ==
    ASSUME Types, ~Writing, NEW r \in Request, StartPage(r, FirstPage(r.item)), UNCHANGED <<cells, stored, requests>>,
           r.version >= stored[r.item],
           IF r.item = PointerItem THEN r.version = 1 ELSE r.version <= requests
    PROVE  /\ Rewriting' /\ op' = r /\ Writing' /\ stage' = "erase"
           /\ save' \in [Addresses -> Int] /\ before' \in [Addresses -> Int]
<1>1. /\ op' = r /\ stage' = "erase" /\ page' = FirstPage(r.item) /\ word' = 0
      /\ save' = Overlay(r, FirstPage(r.item)) /\ before' = cells
  BY DEF StartPage
<1>2. r.item \in Items /\ r.version \in Nat
  BY DEF Request
<1>3. save' \in [Addresses -> Int]
  BY <1>1, <1>2 DEF Overlay, Types
<1>4. /\ page' \in Pages /\ page' <= At[r.item] /\ At[r.item] < page' + PageCells
  BY <1>1, <1>2, FirstPageIs
<1>5. At[r.item] \in Nat /\ Length[r.item] \in Nat \ {0} /\ WordCells \in Nat \ {0} /\ PageCells \in Nat \ {0}
  BY <1>2, ItemsAssumption, PagesAssumption
<1>6. page' \in Nat /\ page' < At[r.item] + Length[r.item]
  BY <1>4, <1>5 DEF Pages, Addresses
<1>7. \A a \in Place(r.item) : ~(a < page')
  BY <1>4, <1>5, <1>6 DEF Place, Addresses
<1>8. \A a \in PageAt(page') : save'[a] = IF a \in Place(r.item) THEN r.version ELSE before'[a]
  BY <1>1 DEF Overlay, PageAt
<1>9. 0 % WordCells = 0 /\ 0 + WordCells <= PageCells
  <2>1. 0 % WordCells = 0
    BY <1>5, Multiple, 0 = WordCells * 0
  <2>2. 0 \in Nat /\ 0 < PageCells /\ PageCells \in Nat /\ PageCells % WordCells = 0
    BY <1>5, PagesAssumption
  <2>3. 0 + WordCells <= PageCells
    BY <1>5, <2>1, <2>2, WordFits
  <2>4. QED
    BY <2>1, <2>3
<1>10. QED
  BY <1>1, <1>2, <1>3, <1>4, <1>6, <1>7, <1>8, <1>9 DEF Rewriting, Types, Writing

LEMMA SetupInv == ASSUME Inv, Setup PROVE Inv'
<1>1. /\ stage = "setup" /\ ~Writing
      /\ UNCHANGED <<cells, queue, boot, stored, found, cut, requests, faults>>
  BY DEF Setup, Writing, history
<1>2. requests \in Nat /\ requests' = requests /\ requests' >= requests
  BY <1>1 DEF Inv, Types
<1>3. ReadsAreWhole' /\ found'[PointerItem] = {}
  BY <1>1, <1>2, SameReads
<1>4. CASE \A a \in Place(PointerItem) : cells[a] > 0
  <2>1. stage' = "idle" /\ UNCHANGED <<op, page, word, save, before>> /\ ~Writing'
    BY <1>4 DEF Setup, Writing
  <2>2. Types' /\ Waiting' /\ Rewriting'
    BY <1>1, <2>1 DEF Inv, Types, Waiting, Rewriting
  <2>3. KeepsAll
    BY <1>1, <2>1 DEF KeepsAll, Kept, Writing
  <2>4. QED
    BY <1>1, <1>2, <1>3, <2>1, <2>2, <2>3, QuietInv
<1>5. CASE ~(\A a \in Place(PointerItem) : cells[a] > 0)
  <2> DEFINE r == [item |-> PointerItem, kind |-> "WRITE", version |-> 1]
  <2>1. StartPage(r, FirstPage(PointerItem)) /\ r \in Request /\ r.item = PointerItem /\ r.version = 1
    BY <1>5, ItemsAssumption DEF Setup, Request
  <2> HIDE DEF r
  <2>2. Types /\ stored[PointerItem] <= 1
    BY DEF Inv
  <2>3. stored[PointerItem] \in Nat
    BY <2>2, ItemsAssumption DEF Types
  <2>4. /\ Rewriting' /\ op' = r /\ Writing' /\ stage' = "erase"
        /\ save' \in [Addresses -> Int] /\ before' \in [Addresses -> Int]
    BY <1>1, <2>1, <2>2, <2>3, StartRewriting
  <2>5. Types'
    BY <1>1, <2>4 DEF Inv, Types
  <2>6. Waiting'
    <3>1. \A n \in 1..Len(queue) : queue[n] \in Served
      BY DEF Inv, Types
    <3>2. \A n \in 1..Len(queue) : queue[n].item # PointerItem
      BY <3>1 DEF Served
    <3>3. QED
      BY <1>1, <2>1, <2>4, <3>2 DEF Inv, Waiting
  <2>7. KeepsAll
    BY <1>1, <2>1, <2>2, StartKeeps
  <2>8. QED
    BY <1>1, <1>2, <1>3, <2>4, <2>5, <2>6, <2>7, QuietInv
<1>6. QED
  BY <1>4, <1>5

\* The request that is served leaves others.
LEMMA OneFewer ==
    ASSUME Inv, queue # <<>>, queue' = Tail(queue), UNCHANGED <<stored, requests>>,
           Writing' => op'.item = Head(queue).item, ~Writing
    PROVE  Waiting' /\ queue' \in Seq(Served) /\ Head(queue) \in Served
           /\ Head(queue).version <= requests /\ Head(queue).version >= stored[Head(queue).item]
<1>1. queue \in Seq(Served)
  BY DEF Inv, Types
<1>2. /\ Len(queue) \in Nat /\ Len(queue) >= 1 /\ Head(queue) = queue[1] /\ queue[1] \in Served
      /\ queue' \in Seq(Served) /\ Len(queue') = Len(queue) - 1
      /\ \A n \in 1..Len(queue') : n + 1 \in 1..Len(queue) /\ queue'[n] = queue[n + 1]
  BY <1>1
<1>3. queue[1].version <= requests /\ queue[1].version >= stored[queue[1].item]
  BY <1>2 DEF Inv, Waiting
<1>4. ASSUME NEW n \in 1..Len(queue')
      PROVE  /\ queue'[n].version <= requests' /\ queue'[n].version >= stored'[queue'[n].item]
             /\ Writing' => queue'[n].item # op'.item
  <2>1. n + 1 \in 1..Len(queue) /\ n + 1 # 1 /\ 1 \in 1..Len(queue) /\ queue'[n] = queue[n + 1]
    BY <1>2
  <2>2. queue[n + 1].item # queue[1].item /\ queue[n + 1].version <= requests
          /\ queue[n + 1].version >= stored[queue[n + 1].item]
    BY <2>1 DEF Inv, Waiting
  <2>3. QED
    BY <1>2, <2>1, <2>2
<1>5. ASSUME NEW m \in 1..Len(queue'), NEW n \in 1..Len(queue'), m # n
      PROVE  queue'[m].item # queue'[n].item
  <2>1. m + 1 \in 1..Len(queue) /\ n + 1 \in 1..Len(queue) /\ m + 1 # n + 1
    BY <1>2, <1>5
  <2>2. queue[m + 1].item # queue[n + 1].item
    BY <2>1 DEF Inv, Waiting
  <2>3. QED
    BY <1>2, <2>2
<1>6. \A i \in Items \ {PointerItem} : stored'[i] <= requests'
  BY DEF Inv, Waiting
<1>7. Waiting'
  BY <1>4, <1>5, <1>6 DEF Waiting
<1>8. QED
  BY <1>2, <1>3, <1>7

LEMMA ServeReadInv == ASSUME Inv, ServeRead PROVE Inv'
<1> DEFINE i == Head(queue).item
<1>1. /\ stage = "idle" /\ ~Writing /\ queue # <<>> /\ queue' = Tail(queue)
      /\ found' = [found EXCEPT ![i] = {cells[a] : a \in Place(i)}]
      /\ UNCHANGED <<cells, op, stage, page, word, save, before, boot, stored, cut, requests, faults>>
  BY DEF ServeRead, driver, Writing
<1>2. ~Writing' /\ requests \in Nat /\ requests' >= requests
  BY <1>1 DEF Writing, Inv, Types
<1>3. Waiting' /\ queue' \in Seq(Served) /\ Head(queue) \in Served
  BY <1>1, <1>2, OneFewer
<1>4. i \in Items \ {PointerItem}
  BY <1>3 DEF Served
<1> HIDE DEF i
<1>5. {cells[a] : a \in Place(i)} \in SUBSET Int
  BY DEF Inv, Types, Place
<1>6. Types'
  BY <1>1, <1>3, <1>5 DEF Inv, Types
<1>7. Rewriting' /\ KeepsAll
  BY <1>1, <1>2, SameKeeps DEF Rewriting
<1>8. ReadsAreWhole'
  <2>1. SUFFICES ASSUME faults = 0, NEW j \in Items, found'[j] # {}
                 PROVE  \E v \in 0..requests : found'[j] = {v}
    BY <1>1 DEF ReadsAreWhole
  <2>2. CASE j = i
    <3>1. PICK v \in 0..requests : \A a \in Place(i) : Kept(a) = v
      BY <1>1, <1>4, <2>1 DEF Inv, Whole
    <3>2. \A a \in Place(i) : cells[a] = v
      BY <1>1, <3>1 DEF Kept
    <3>3. At[i] \in Place(i)
      BY <1>4, FirstPageIs
    <3>4. {cells[a] : a \in Place(i)} = {v}
      BY <3>2, <3>3
    <3>5. QED
      BY <1>1, <1>4, <2>2, <3>4 DEF Inv, Types
  <2>3. CASE j # i
    <3>1. found'[j] = found[j]
      BY <1>1, <2>3 DEF Inv, Types
    <3>2. QED
      BY <2>1, <3>1 DEF Inv, AnsweredIsKept, ReadsAreWhole
  <2>4. QED
    BY <2>2, <2>3
<1>9. found'[PointerItem] = {}
  BY <1>1, <1>4, ItemsAssumption DEF Inv, Types
<1>10. QED
  BY <1>1, <1>2, <1>3, <1>6, <1>7, <1>8, <1>9, QuietInv

LEMMA ServeWriteInv == ASSUME Inv, ServeWrite PROVE Inv'
<1> DEFINE r == Head(queue)
<1>1. /\ stage = "idle" /\ ~Writing /\ queue # <<>> /\ queue' = Tail(queue)
      /\ StartPage(r, FirstPage(r.item))
      /\ UNCHANGED <<cells, boot, stored, found, cut, requests, faults>>
  BY DEF ServeWrite, history, Writing
<1>2. op' = r /\ requests \in Nat /\ requests' >= requests
  BY <1>1 DEF StartPage, Inv, Types
<1>3. /\ Waiting' /\ queue' \in Seq(Served) /\ r \in Served
      /\ r.version <= requests /\ r.version >= stored[r.item]
  BY <1>1, <1>2, OneFewer
<1> HIDE DEF r
<1>4. r \in Request /\ r.item # PointerItem
  BY <1>3 DEF Served, Request
<1>5. /\ Rewriting' /\ Writing' /\ stage' = "erase"
      /\ save' \in [Addresses -> Int] /\ before' \in [Addresses -> Int]
  BY <1>1, <1>3, <1>4, StartRewriting DEF Inv
<1>6. Types'
  BY <1>1, <1>3, <1>5 DEF Inv, Types
<1>7. KeepsAll
  BY <1>1, StartKeeps DEF Inv
<1>8. ReadsAreWhole' /\ found'[PointerItem] = {}
  BY <1>1, <1>2, SameReads
<1>9. QED
  BY <1>1, <1>2, <1>3, <1>5, <1>6, <1>7, <1>8, QuietInv

LEMMA EraseInv == ASSUME Inv, Erase PROVE Inv'
<1>1. /\ stage = "erase" /\ Writing /\ stage' = "program" /\ Writing'
      /\ cells' = [a \in Addresses |-> IF a \in PageAt(page) THEN Erased ELSE cells[a]]
      /\ UNCHANGED <<queue, op, page, word, save, before, boot, stored, found, cut, requests, faults>>
  BY DEF Erase, history, Writing
<1>2. requests \in Nat /\ requests' >= requests
  BY <1>1 DEF Inv, Types
<1>3. Types' /\ Waiting'
  BY <1>1 DEF Inv, Types, Waiting, Erased
<1>4. /\ op \in Request /\ page \in Pages
      /\ At[op.item] < page + PageCells /\ page < At[op.item] + Length[op.item]
      /\ op.version >= stored[op.item]
      /\ IF op.item = PointerItem THEN op.version = 1 ELSE op.version <= requests
      /\ \A a \in Place(op.item) : a < page => cells[a] = op.version
      /\ \A a \in PageAt(page) : save[a] = IF a \in Place(op.item) THEN op.version ELSE before[a]
      /\ word = 0 /\ word % WordCells = 0 /\ word + WordCells <= PageCells
  BY <1>1 DEF Inv, Rewriting
<1>5. \A a \in Place(op.item) : a < page => cells'[a] = op.version
  BY <1>1, <1>4 DEF Place, PageAt, Pages, Addresses
<1>6. \A a \in PageAt(page) : ~(a < page + word)
  BY <1>4 DEF PageAt, Pages, Addresses
<1>7. Rewriting'
  BY <1>1, <1>4, <1>5, <1>6 DEF Rewriting
<1>8. KeepsAll
  BY EraseKeeps
<1>9. ReadsAreWhole' /\ found'[PointerItem] = {}
  BY <1>1, <1>2, SameReads
<1>10. QED
  BY <1>1, <1>2, <1>3, <1>7, <1>8, <1>9, QuietInv

LEMMA WordInv == ASSUME Inv, Program, word + WordCells < PageCells PROVE Inv'
<1>1. /\ stage = "program" /\ Writing /\ Writing' /\ word' = word + WordCells
      /\ UNCHANGED <<queue, op, stage, page, save, before, boot, stored, found, cut, requests, faults>>
  BY DEF Program, Writing
<1>2. requests \in Nat /\ requests' >= requests
  BY <1>1 DEF Inv, Types
<1>3. /\ op \in Request /\ page \in Pages /\ word \in Nat
      /\ WordAt(page, word) \subseteq PageAt(page)
      /\ cells' \in [Addresses -> Int]
      /\ \A a \in Addresses : cells'[a] = IF a \in WordAt(page, word) THEN save[a] ELSE cells[a]
  BY ProgramCells DEF Inv
<1>4. Types' /\ Waiting'
  BY <1>1, <1>3 DEF Inv, Types, Waiting
<1>5. /\ At[op.item] < page + PageCells /\ page < At[op.item] + Length[op.item]
      /\ op.version >= stored[op.item]
      /\ IF op.item = PointerItem THEN op.version = 1 ELSE op.version <= requests
      /\ \A a \in Place(op.item) : a < page => cells[a] = op.version
      /\ \A a \in PageAt(page) : save[a] = IF a \in Place(op.item) THEN op.version ELSE before[a]
      /\ word % WordCells = 0 /\ word + WordCells <= PageCells
      /\ \A a \in PageAt(page) : a < page + word => cells[a] = save[a]
  BY <1>1 DEF Inv, Rewriting
<1>6. WordCells \in Nat \ {0} /\ PageCells \in Nat /\ PageCells % WordCells = 0 /\ page \in Nat
  BY <1>3, PagesAssumption DEF Pages, Addresses
<1>7. word' \in Nat /\ word' % WordCells = 0
  <2>1. (word + WordCells) % WordCells = 0
    BY <1>3, <1>5, <1>6, NextMultiple
  <2>2. QED
    BY <1>1, <1>3, <1>6, <2>1
<1>8. word' < PageCells
  BY <1>1
<1>9. word' + WordCells <= PageCells
  BY <1>6, <1>7, <1>8, WordFits
<1>10. \A a \in Place(op.item) : a < page => cells'[a] = op.version
  BY <1>3, <1>5, <1>6 DEF Place, WordAt, Addresses
<1>11. \A a \in PageAt(page) : a < page + word' => cells'[a] = save[a]
  BY <1>1, <1>3, <1>5, <1>6 DEF PageAt, WordAt, Addresses
<1>12. Rewriting'
  BY <1>1, <1>3, <1>5, <1>7, <1>9, <1>10, <1>11 DEF Rewriting
<1>13. KeepsAll
  BY WordKeeps DEF Inv
<1>14. ReadsAreWhole' /\ found'[PointerItem] = {}
  BY <1>1, <1>2, SameReads
<1>15. QED
  BY <1>1, <1>2, <1>4, <1>12, <1>13, <1>14, QuietInv

\* The end of a page: the next page that the request touches, or the end of the request.
LEMMA PageInv == ASSUME Inv, PageDone PROVE Inv'
<1> DEFINE i == op.item
           more == page + PageCells < At[i] + Length[i]
<1>1. /\ stage = "program" /\ Writing /\ Program
      /\ UNCHANGED <<queue, boot, found, cut, requests, faults>>
  BY DEF PageDone, Program, Writing
<1>2. /\ op \in Request /\ page \in Pages /\ cells' \in [Addresses -> Int]
  BY <1>1, ProgramCells DEF Inv
<1>3. /\ At[i] < page + PageCells /\ page < At[i] + Length[i]
      /\ op.version >= stored[i]
      /\ IF i = PointerItem THEN op.version = 1 ELSE op.version <= requests
      /\ \A a \in Place(i) : a < page => cells[a] = op.version
  BY <1>1 DEF Inv, Rewriting
<1>4. /\ WritesPage
      /\ \A a \in PageAt(page) : cells'[a] = IF a \in Place(i) THEN op.version ELSE before[a]
      /\ \A a \in Addresses \ PageAt(page) : cells'[a] = cells[a]
  BY PageWritten DEF Inv
<1>5. /\ i \in Items /\ op.version \in Nat /\ At[i] \in Nat /\ Length[i] \in Nat \ {0}
      /\ At[i] + Length[i] <= Size /\ Size \in Nat /\ PageCells \in Nat \ {0} /\ WordCells \in Nat \ {0}
      /\ page \in Nat /\ page % PageCells = 0 /\ requests \in Nat
      /\ stored \in [Items -> Nat]
  BY <1>2, ItemsAssumption, PagesAssumption DEF Request, Pages, Addresses, Inv, Types
<1> HIDE DEF i
<1>6. more => /\ op' = op /\ stage' = "erase" /\ page' = page + PageCells /\ word' = 0
              /\ save' = [a \in Addresses |-> IF a \in Place(i) \cap PageAt(page') THEN op.version
                                              ELSE cells'[a]]
              /\ before' = cells' /\ UNCHANGED stored
  BY <1>1 DEF Program, NextPage, PageDone, i
<1>7. ~more => /\ stage' = "idle" /\ stored' = [stored EXCEPT ![i] = op.version]
               /\ UNCHANGED <<op, page, word, save, before>>
  BY <1>1 DEF Program, NextPage, PageDone, AnswerWrite, i
<1> HIDE DEF more
<1>8. /\ stored' \in [Items -> Nat]
      /\ \A j \in Items : stored'[j] = IF j = i /\ ~more THEN op.version ELSE stored[j]
  BY <1>5, <1>6, <1>7
<1>9. Types'
  <2>0. save \in [Addresses -> Int] /\ before \in [Addresses -> Int] /\ cells' \in [Addresses -> Int]
    BY <1>2 DEF Inv, Types
  <2>1. save' \in [Addresses -> Int] /\ before' \in [Addresses -> Int]
    <3>1. CASE more
      <4>1. before' = cells'
        BY <1>6, <3>1
      <4>2. save' = [a \in Addresses |-> IF a \in Place(i) \cap PageAt(page') THEN op.version
                                         ELSE cells'[a]]
        BY <1>6, <3>1
      <4>3. op.version \in Int
        BY <1>5
      <4> QED
        BY <2>0, <4>1, <4>2, <4>3
    <3>2. CASE ~more
      BY <1>7, <2>0, <3>2
    <3> QED
      BY <3>1, <3>2
  <2>2. stage' \in {"setup", "idle", "erase", "program"}
    BY <1>6, <1>7
  <2>3. QED
    BY <1>1, <1>2, <1>8, <2>1, <2>2 DEF Inv, Types
<1>10. Waiting'
  <2>1. \A n \in 1..Len(queue) : queue[n] \in Served
    BY DEF Inv, Types
  <2>2. \A n \in 1..Len(queue) : queue[n].item # i /\ queue[n].item \in Items
    BY <1>1, <2>1 DEF Inv, Waiting, Served, i
  <2>3. Writing' => op'.item = i
    BY <1>6, <1>7 DEF Writing, i
  <2>4. \A j \in Items \ {PointerItem} : stored'[j] <= requests'
    BY <1>1, <1>3, <1>8 DEF Inv, Waiting
  <2>5. \A n \in 1..Len(queue) : stored'[queue[n].item] = stored[queue[n].item]
    BY <1>8, <2>2
  <2>6. QED
    BY <1>1, <2>2, <2>3, <2>4, <2>5 DEF Inv, Waiting
<1>11. Rewriting'
  <2>1. CASE more
    <3>1. page' \in Pages
      <4>1. page' % PageCells = 0
        <5>1. (page + PageCells) % PageCells = 0
          BY <1>5, NextMultiple
        <5>2. QED
          BY <1>6, <2>1, <5>1
      <4>2. page' \in Nat /\ page' < Size
        BY <1>5, <1>6, <2>1 DEF more
      <4>3. page' \in Addresses
        BY <1>5, <4>2 DEF Addresses
      <4>4. QED
        BY <4>1, <4>3 DEF Pages
    <3>2. At[i] < page' + PageCells /\ page' < At[i] + Length[i]
      BY <1>3, <1>5, <1>6, <2>1 DEF more
    <3>3. \A a \in Place(i) : a < page' => cells'[a] = op.version
      BY <1>3, <1>4, <1>5, <1>6, <2>1 DEF Place, PageAt, Addresses
    <3>4. \A a \in PageAt(page') : save'[a] = IF a \in Place(i) THEN op.version ELSE before'[a]
      BY <1>6, <2>1 DEF PageAt
    <3>5. 0 % WordCells = 0 /\ 0 + WordCells <= PageCells
      <4>1. 0 % WordCells = 0
        BY <1>5, Multiple, 0 = WordCells * 0
      <4>2. 0 \in Nat /\ 0 < PageCells /\ PageCells \in Nat /\ PageCells % WordCells = 0
        BY <1>5, PagesAssumption
      <4>3. 0 + WordCells <= PageCells
        BY <1>5, <4>1, <4>2, WordFits
      <4>4. QED
        BY <4>1, <4>3
    <3>6. stored'[i] = stored[i]
      BY <1>5, <1>8, <2>1
    <3>7. QED
      BY <1>1, <1>2, <1>3, <1>6, <2>1, <3>1, <3>2, <3>3, <3>4, <3>5, <3>6 DEF Rewriting, i
  <2>2. CASE ~more
    BY <1>7, <2>2 DEF Rewriting, Writing
  <2>3. QED
    BY <2>1, <2>2
\* At the end of the request, all of its place is written.
<1>12. ~more => \A a \in Place(i) : Kept(a)' = op.version
  <2>1. SUFFICES ASSUME ~more, NEW a \in Place(i) PROVE Kept(a)' = op.version
    OBVIOUS
  <2>2. a \in Addresses /\ a \in Nat /\ a < page + PageCells
    BY <1>5, <2>1 DEF more, Place, Addresses
  <2>3. CASE a \in PageAt(page)
    BY <1>4, <2>1, <2>2, <2>3 DEF WritesPage, i
  <2>4. CASE a \notin PageAt(page)
    <3>1. a < page
      BY <1>5, <2>2, <2>4 DEF PageAt
    <3>2. Kept(a)' = cells[a]
      BY <1>4, <2>2, <2>4 DEF WritesPage, Kept
    <3>3. QED
      BY <1>3, <2>1, <3>1, <3>2
  <2>5. QED
    BY <2>3, <2>4
<1>13. KeptInFlash'
  <2>1. SUFFICES ASSUME NEW j \in Items, NEW a \in Place(j), (a - (a % PageCells)) \notin cut
                 PROVE  Kept(a)' >= stored'[j]
    BY <1>1 DEF KeptInFlash
  <2>2. Kept(a) >= stored[j] /\ a \in Addresses
    BY <2>1 DEF Inv, AnsweredIsKept, KeptInFlash, Place
  <2>3. CASE j = i
    <3>1. Kept(a)' = op.version \/ (Kept(a)' = Kept(a) /\ more)
      BY <1>4, <1>12, <2>1, <2>2, <2>3 DEF WritesPage, i
    <3>2. QED
      BY <1>3, <1>5, <1>8, <2>2, <2>3, <3>1
  <2>4. CASE j # i
    <3>1. a \notin Place(i)
      BY <1>5, <2>1, <2>4, Separate
    <3>2. Kept(a)' = Kept(a)
      BY <1>4, <2>2, <3>1 DEF WritesPage, i
    <3>3. QED
      BY <1>8, <2>2, <2>4, <3>2
  <2>5. QED
    BY <2>3, <2>4
<1>14. Whole'
  <2>1. SUFFICES ASSUME faults = 0, NEW j \in Items \ {PointerItem}
                 PROVE  \/ (Writing /\ op.item = j)'
                        \/ \E v \in 0..requests : \A a \in Place(j) : Kept(a)' = v
    BY <1>1 DEF Whole
  <2>2. CASE j = i /\ more
    BY <1>6, <2>2 DEF Writing, i
  <2>3. CASE j = i /\ ~more
    BY <1>3, <1>5, <1>12, <2>3
  <2>4. CASE j # i
    <3>1. PICK v \in 0..requests : \A a \in Place(j) : Kept(a) = v
      BY <2>1, <2>4 DEF Inv, Whole, i
    <3>2. \A a \in Place(j) : a \notin Place(i) /\ a \in Addresses
      BY <1>5, <2>4, Separate DEF Place
    <3>3. \A a \in Place(j) : Kept(a)' = v
      BY <1>4, <3>1, <3>2 DEF WritesPage, i
    <3>4. QED
      BY <3>1, <3>3
  <2>5. QED
    BY <2>2, <2>3, <2>4
<1>15. BootsAsSaved'
  BY <1>6, <1>7 DEF BootsAsSaved
<1>16. ReadsAreWhole' /\ found'[PointerItem] = {}
  BY <1>1, <1>5, SameReads
<1>17. stored'[PointerItem] <= 1
  BY <1>3, <1>8, ItemsAssumption DEF Inv
<1>18. QED
  BY <1>9, <1>10, <1>11, <1>13, <1>14, <1>15, <1>16, <1>17 DEF Inv, AnsweredIsKept

\* A fault that ends a write may destroy its page, which is noted in cut.
LEMMA CutInv ==
    ASSUME Inv, Writing, Spoiled, ~Writing', cut' = cut \union {page}, faults' = faults + 1,
           stage' \in {"setup", "idle"}, UNCHANGED <<op, page, word, save, before, stored, found, requests>>,
           \/ queue' = queue
           \/ queue' = <<>>,
           BootsAsSaved'
    PROVE  Inv'
<1>1. LosesPage /\ cells' \in [Addresses -> Int] /\ page \in Pages
  BY SpoiledLoses DEF Inv
<1>2. faults' \in Nat /\ faults' # 0 /\ requests \in Nat
  BY DEF Inv, Types
<1>3. Types'
  <2>1. queue' \in Seq(Served)
    <3>1. queue \in Seq(Served)
      BY DEF Inv, Types
    <3>2. <<>> \in Seq(Served)
      OBVIOUS
    <3>3. QED
      BY <3>1, <3>2
  <2>2. QED
    BY <1>1, <1>2, <2>1 DEF Inv, Types
<1>4. Waiting' /\ Rewriting' /\ Whole' /\ ReadsAreWhole'
  BY <1>2 DEF Inv, Waiting, Rewriting, Whole, ReadsAreWhole
<1>5. KeptInFlash'
  <2>1. SUFFICES ASSUME NEW i \in Items, NEW a \in Place(i), (a - (a % PageCells)) \notin cut'
                 PROVE  Kept(a)' >= stored[i]
    BY DEF KeptInFlash
  <2>2. a \in Addresses \ PageAt(page)
    BY <1>1, <2>1, InPage DEF Place
  <2>3. Kept(a)' = Kept(a)
    BY <1>1, <2>2 DEF LosesPage
  <2>4. Kept(a) >= stored[i]
    BY <2>1 DEF Inv, AnsweredIsKept, KeptInFlash
  <2>5. QED
    BY <2>3, <2>4
<1>6. QED
  BY <1>3, <1>4, <1>5 DEF Inv, AnsweredIsKept

LEMMA FlashErrorInv == ASSUME Inv, FlashError PROVE Inv'
<1>1. /\ Writing /\ Spoiled /\ cut' = cut \union {page} /\ faults' = faults + 1 /\ stage' = "idle"
      /\ ~Writing' /\ UNCHANGED <<queue, op, page, word, save, before, boot, stored, found, requests>>
  BY DEF FlashError, Writing
<1>2. BootsAsSaved'
  BY <1>1 DEF BootsAsSaved
<1>3. QED
  BY <1>1, <1>2, CutInv

LEMMA PowerLossInv == ASSUME Inv, PowerLoss PROVE Inv'
<1>1. /\ faults' = faults + 1 /\ stage' = "setup" /\ queue' = <<>> /\ ~Writing'
      /\ boot' \in Restored(cells'[At[StateItem]])
      /\ UNCHANGED <<op, page, word, save, before, stored, found, requests>>
  BY DEF PowerLoss, Writing
<1>2. Writing => Spoiled /\ cut' = cut \union {page}
  BY DEF PowerLoss, Writing
<1>3. ~Writing => UNCHANGED <<cells, cut>>
  BY DEF PowerLoss, Writing
<1>4. faults' \in Nat /\ faults' # 0 /\ requests \in Nat
  BY <1>1 DEF Inv, Types
<1>5. StateItem \in Items /\ At[StateItem] \in Place(StateItem) /\ At[StateItem] \in Addresses
        /\ stored[StateItem] \in Nat
  BY ItemsAssumption, FirstPageIs DEF Inv, Types
\* What flash holds of the state is what is restored.
<1>6. ASSUME KeptInFlash' PROVE BootsAsSaved'
  <2>1. SUFFICES ASSUME FirstPage(StateItem) \notin cut' PROVE boot' >= stored[StateItem]
    BY <1>1 DEF BootsAsSaved
  <2>2. Kept(At[StateItem])' >= stored[StateItem]
    BY <1>1, <1>5, <1>6, <2>1 DEF KeptInFlash, FirstPage
  <2>3. Kept(At[StateItem])' = cells'[At[StateItem]]
    BY <1>1 DEF Kept
  <2>4. cells' \in [Addresses -> Int]
    BY <1>1, <1>2, <1>3, SpoiledLoses DEF Inv, Types
  <2>5. cells'[At[StateItem]] \in Int
    BY <1>5, <2>4
  <2>6. CASE cells'[At[StateItem]] > 0
    BY <1>1, <2>2, <2>3, <2>6 DEF Restored, Erased, Torn
  <2>7. CASE cells'[At[StateItem]] = 0
    BY <1>1, <2>2, <2>3, <2>7 DEF Restored, Erased, Torn
  <2>8. QED
    BY <1>5, <2>2, <2>3, <2>5, <2>6, <2>7
<1>7. CASE Writing
  <2>1. KeptInFlash'
    <3>1. LosesPage /\ page \in Pages
      BY <1>1, <1>2, <1>7, SpoiledLoses DEF Inv
    <3>2. SUFFICES ASSUME NEW i \in Items, NEW a \in Place(i), (a - (a % PageCells)) \notin cut'
                   PROVE  Kept(a)' >= stored[i]
      BY <1>1 DEF KeptInFlash
    <3>3. a \in Addresses \ PageAt(page) /\ (a - (a % PageCells)) \notin cut
      BY <1>2, <1>7, <3>1, <3>2, InPage DEF Place
    <3>4. Kept(a)' = Kept(a) /\ Kept(a) >= stored[i]
      BY <3>1, <3>2, <3>3 DEF LosesPage, Inv, AnsweredIsKept, KeptInFlash
    <3>5. QED
      BY <3>4
  <2>2. QED
    BY <1>1, <1>2, <1>6, <1>7, <2>1, CutInv
<1>8. CASE ~Writing
  <2>1. KeptInFlash'
    BY <1>1, <1>3, <1>8 DEF Inv, AnsweredIsKept, KeptInFlash, Kept, Writing
  <2>2. Types'
    BY <1>1, <1>3, <1>4, <1>8 DEF Inv, Types
  <2>3. Waiting' /\ Rewriting' /\ Whole' /\ ReadsAreWhole'
    BY <1>1, <1>4 DEF Inv, Waiting, Rewriting, Whole, ReadsAreWhole
  <2>4. QED
    BY <1>1, <1>6, <2>1, <2>2, <2>3 DEF Inv, AnsweredIsKept
<1>9. QED
  BY <1>7, <1>8

LEMMA NextInv == Inv /\ [Next]_vars => Inv'
<1> SUFFICES ASSUME Inv, [Next]_vars PROVE Inv'
  OBVIOUS
<1>1. CASE Submit
  BY <1>1, SubmitInv
<1>2. CASE Setup
  BY <1>2, SetupInv
<1>3. CASE ServeRead
  BY <1>3, ServeReadInv
<1>4. CASE ServeWrite
  BY <1>4, ServeWriteInv
<1>5. CASE Erase
  BY <1>5, EraseInv
<1>6. CASE Program
  BY <1>6, WordInv, PageInv DEF PageDone, Program
<1>7. CASE FlashError
  BY <1>7, FlashErrorInv
<1>8. CASE PowerLoss
  BY <1>8, PowerLossInv
<1>9. CASE UNCHANGED vars
  <2>1. UNCHANGED <<cells, queue, op, stage, page, word, save, before, boot, stored, found, cut,
                    requests, faults>>
    BY <1>9 DEF vars, driver, history
  <2>2. (Writing' <=> Writing) /\ KeepsAll
    BY <2>1, SameKeeps DEF Writing
  <2>3. Types' /\ Waiting'
    BY <2>1, <2>2 DEF Inv, Types, Waiting
  <2>4. Rewriting'
    BY <2>1, <2>2 DEF Inv, Rewriting
  <2>5. requests \in Nat /\ requests' >= requests
    BY <2>1 DEF Inv, Types
  <2>6. ReadsAreWhole' /\ found'[PointerItem] = {}
    BY <2>1, <2>5, SameReads
  <2>7. QED
    BY <2>1, <2>2, <2>3, <2>4, <2>5, <2>6, QuietInv
<1>10. CASE Finished
  BY <1>9, <1>10 DEF Finished
<1>11. QED
  BY <1>1, <1>2, <1>3, <1>4, <1>5, <1>6, <1>7, <1>8, <1>9, <1>10 DEF Next, Obdh

\* A write that got to its end stays in flash until the rewriting of its page is cut short;
\* the state that is restored is then the one saved last; and a read finds one version whole.
THEOREM AnsweredIsKeptHolds == Spec => []AnsweredIsKept
<1>1. Inv => AnsweredIsKept
  BY DEF Inv
<1>2. QED
  BY InitInv, NextInv, <1>1, PTL DEF Spec

-----------------------------------------------------------------------------
(* Write_Flash implements a store that changes a page at once *)

Mem == [a \in Addresses |-> Kept(a)]

LEMMA QuietStep ==
    ASSUME KeepsAll, UNCHANGED faults
    PROVE  UNCHANGED <<Mem, faults>>
BY DEF KeepsAll, Mem

\* The bytes of the request that are in the page are a part.
LEMMA PartStep ==
    ASSUME Inv, PageDone
    PROVE  Store!Put
<1> DEFINE p == Place(op.item) \cap PageAt(page)
<1>1. WritesPage /\ UNCHANGED faults /\ Writing
  BY PageWritten DEF Inv, PageDone, Program, Writing
<1>2. /\ op \in Request /\ page \in Pages
      /\ At[op.item] < page + PageCells /\ page < At[op.item] + Length[op.item]
  BY <1>1 DEF Inv, Rewriting
<1>3. PICK a \in Addresses : a \in p
  <2>1. /\ op.item \in Items /\ At[op.item] \in Nat /\ Length[op.item] \in Nat \ {0}
        /\ At[op.item] + Length[op.item] <= Size /\ Size \in Nat /\ PageCells \in Nat \ {0}
        /\ page \in Nat
    BY <1>2, ItemsAssumption, PagesAssumption DEF Request, Pages, Addresses
  <2>2. CASE page <= At[op.item]
    BY <1>2, <2>1, <2>2 DEF Place, PageAt, Addresses
  <2>3. CASE At[op.item] < page
    BY <1>2, <2>1, <2>3 DEF Place, PageAt, Addresses
  <2>4. QED
    BY <2>1, <2>2, <2>3
<1>4. p \in Parts
  BY <1>2, <1>3 DEF Parts, Request
<1>5. Mem' = [c \in Addresses |-> IF c \in p THEN op.version ELSE Mem[c]]
  BY <1>1 DEF WritesPage, Mem
<1>6. op.version \in {Mem'[c] : c \in p}
  <2>1. Mem'[a] = op.version
    BY <1>3, <1>5
  <2>2. QED
    BY <1>3, <2>1
<1> HIDE DEF p
<1>7. \E q \in Parts : \E v \in {Mem'[c] : c \in q} :
          Mem' = [c \in Addresses |-> IF c \in q THEN v ELSE Mem[c]]
  BY <1>4, <1>5, <1>6
<1>8. QED
  BY <1>1, <1>7 DEF Store!Put, Mem

LEMMA LoseStep ==
    ASSUME NEW p \in Pages, faults' = faults + 1, \A a \in Addresses \ PageAt(p) : Kept(a)' = Kept(a)
    PROVE  Store!Lose
<1>1. PageAt(p) \in Sectors
  BY DEF Sectors
<1>2. Mem' = [c \in Addresses |-> IF c \in PageAt(p) THEN Mem'[c] ELSE Mem[c]]
  BY DEF Mem
<1>3. QED
  BY <1>1, <1>2 DEF Store!Lose, Mem

LEMMA StoreInit == Init => Mem \in [Addresses -> Int]
BY DEF Init, Mem, Kept, Erased

LEMMA StoreStep == Inv /\ [Next]_vars => [Store!Put \/ Store!Lose]_<<Mem, faults>>
<1> SUFFICES ASSUME Inv, [Next]_vars PROVE Store!Put \/ Store!Lose \/ UNCHANGED <<Mem, faults>>
  OBVIOUS
<1>1. CASE Submit
  BY <1>1, SameKeeps, QuietStep DEF Submit, driver
<1>2. CASE Setup
  <2>1. ~Writing /\ UNCHANGED <<cells, faults>> /\ stage = "setup"
    BY <1>2 DEF Setup, Writing
  <2>2. KeepsAll
    <3>1. CASE stage' = "idle" /\ UNCHANGED <<page, before>>
      BY <2>1, <3>1 DEF KeepsAll, Kept
    <3>2. CASE \E r, p : StartPage(r, p)
      BY <2>1, <3>2, StartKeeps DEF Inv
    <3>3. QED
      BY <1>2, <3>1, <3>2 DEF Setup
  <2>3. QED
    BY <2>1, <2>2, QuietStep
<1>3. CASE ServeRead
  BY <1>3, SameKeeps, QuietStep DEF ServeRead, driver
<1>4. CASE ServeWrite
  <2>1. ~Writing /\ UNCHANGED <<cells, faults>> /\ StartPage(Head(queue), FirstPage(Head(queue).item))
    BY <1>4 DEF ServeWrite, Writing
  <2>2. KeepsAll
    BY <2>1, StartKeeps DEF Inv
  <2>3. QED
    BY <2>1, <2>2, QuietStep
<1>5. CASE Erase
  BY <1>5, EraseKeeps, QuietStep DEF Erase
<1>6. CASE Program
  <2>1. CASE word + WordCells < PageCells
    BY <1>6, <2>1, WordKeeps, QuietStep DEF Inv, Program
  <2>2. CASE ~(word + WordCells < PageCells)
    BY <1>6, <2>2, PartStep DEF PageDone, Program
  <2>3. QED
    BY <2>1, <2>2
<1>7. CASE FlashError
  <2>1. Writing /\ Spoiled /\ ~Writing' /\ faults' = faults + 1
    BY <1>7 DEF FlashError, Writing
  <2>2. LosesPage /\ page \in Pages
    BY <2>1, SpoiledLoses DEF Inv
  <2>3. QED
    BY <2>1, <2>2, LoseStep DEF LosesPage
<1>8. CASE PowerLoss
  <2>1. faults' = faults + 1 /\ ~Writing' /\ stage' = "setup"
    BY <1>8 DEF PowerLoss, Writing
  <2>2. CASE Writing
    <3>1. LosesPage /\ page \in Pages
      BY <1>8, <2>1, <2>2, SpoiledLoses DEF Inv, PowerLoss, Writing
    <3>2. QED
      BY <2>1, <3>1, LoseStep DEF LosesPage
  <2>3. CASE ~Writing
    <3>1. UNCHANGED cells
      BY <1>8, <2>3 DEF PowerLoss, Writing
    <3>2. \A a \in Addresses : Kept(a)' = Kept(a)
      BY <2>1, <2>3, <3>1 DEF Kept, Writing
    <3>3. FirstPage(StateItem) \in Pages
      BY FirstPageIs, ItemsAssumption
    <3>4. QED
      BY <2>1, <3>2, <3>3, LoseStep
  <2>4. QED
    BY <2>2, <2>3
<1>9. CASE UNCHANGED vars
  BY <1>9, SameKeeps, QuietStep DEF vars, driver
<1>10. CASE Finished
  BY <1>9, <1>10 DEF Finished
<1>11. QED
  BY <1>1, <1>2, <1>3, <1>4, <1>5, <1>6, <1>7, <1>8, <1>9, <1>10 DEF Next, Obdh

\* However Write_Flash splits a write into pages, erasures and doublewords, it changes a page at
\* once, nothing but the bytes written, and loses no more than one page to a fault.
THEOREM WritesAreIsolatedHolds == Spec => WritesAreIsolated
<1>1. Spec => []Inv
  BY InitInv, NextInv, PTL DEF Spec
<1>2. Spec => Mem \in [Addresses -> Int] /\ [][Store!Put \/ Store!Lose]_<<Mem, faults>>
  BY <1>1, StoreInit, StoreStep, PTL DEF Spec
<1>3. QED
  BY <1>2, PTL DEF WritesAreIsolated, Store!Spec, Mem

-----------------------------------------------------------------------------
(* A download is a moment of flash *)

\* Versions only grow.  The ground station holds none that is newer than flash; the file in flash
\* when the last window was acknowledged is no older than what it holds, and no newer than what
\* the second reading finds.
Versions ==
    /\ flash \in [Blocks -> Nat]
    /\ ground.held \in [Blocks -> Nat]
    /\ \A b \in Blocks : ground.held[b] <= flash[b]

\* A session that is served is active, and for a telecommand there is.
InSession ==
    /\ request \in Nat \ {0}
    /\ sess.state = "DL_ACTIVE" => sess.of \in DOMAIN Requests
    /\ pc # "loop" => sess.state = "DL_ACTIVE"
    /\ listening => pc \in Exchanges

\* The blocks that were read a second time.
Reread == IF pc = "crc" THEN 0..txNext - 1 ELSE File(sess.of)

Bracketed ==
    pc \in {"crc", "COMPLETE"} =>
        /\ txNext \in Nat
        /\ taken \in [File(sess.of) -> Nat]
        /\ \A b \in File(sess.of) : ground.held[b] <= taken[b] /\ taken[b] <= flash[b]
        /\ \A b \in File(sess.of) : b \in Reread => taken[b] <= crc[b]

Shapes ==
    /\ crc \in [Blocks -> Nat]
    /\ sess = [state |-> sess.state, of |-> sess.of]
    /\ ground = [open |-> ground.open, sid |-> ground.sid, total |-> ground.total, held |-> ground.held]
    /\ file = [of |-> file.of, blocks |-> file.blocks]

DlInv == Versions /\ InSession /\ Bracketed /\ Shapes

\* A file lies in the source area.
LEMMA FileInArea ==
    ASSUME NEW r \in DOMAIN Requests
    PROVE  Total(r) \in Nat \ {0} /\ File(r) \subseteq Blocks
<1>1. Requests[r] \in Download /\ Requests[r].total <= Area /\ Area \in Nat
  BY RequestsAssumption
<1> QED
  BY <1>1 DEF Download, Total, File, Blocks

LEMMA DlInitInv == DlInit => DlInv
  BY RequestsAssumption DEF DlInit, DlInv, Versions, InSession, Bracketed, Shapes, Blocks, Nothing

\* The versions and the second reading outlive every step that leaves them, the blocks on the
\* ground and the session alone.
LEMMA Rest ==
    ASSUME DlInv,
           UNCHANGED <<flash, crc, taken, ground, sess, file, txNext, request>>,
           listening' => pc' \in Exchanges,
           pc' = pc \/ pc' \notin {"crc", "COMPLETE"},
           pc' # "loop" => pc # "loop" \/ sess.state = "DL_ACTIVE"
    PROVE  DlInv'
  BY DEF DlInv, Versions, InSession, Bracketed, Shapes, Reread, File, Total, Blocks

\* A block that is sent is one of flash as it is.
LEMMA SendBlockKeeps ==
    ASSUME DlInv, NEW b, SendBlock(b), UNCHANGED <<flash, crc, taken, sess, file, request, listening>>,
           pc \in {"window", "gaps"}, pc' \in {"window", "gaps"}
    PROVE  DlInv'
<1>1. CASE ground' = ground
  BY <1>1 DEF Exchanges, DlInv, Versions, InSession, Bracketed, Shapes, Blocks
<1>2. CASE ground' = [ground EXCEPT !.held[b] = flash[b]]
  <2>1. ground'.held = [ground.held EXCEPT ![b] = flash[b]]
    BY <1>2 DEF DlInv, Shapes
  <2>2. Versions'
    <3>1. CASE b \notin Blocks
      BY <2>1, <3>1 DEF DlInv, Versions
    <3>2. CASE b \in Blocks
      <4>1. ground'.held[b] = flash[b] /\ \A c \in Blocks \ {b} : ground'.held[c] = ground.held[c]
        BY <2>1, <3>2 DEF DlInv, Versions
      <4>2. ground'.held \in [Blocks -> Nat]
        BY <2>1 DEF DlInv, Versions
      <4> QED
        BY <4>1, <4>2 DEF DlInv, Versions
    <3> QED
      BY <3>1, <3>2
  <2>3. Shapes'
    BY <1>2 DEF DlInv, Shapes, Blocks
  <2> QED
    BY <2>2, <2>3 DEF Exchanges, DlInv, InSession, Bracketed
<1> QED
  BY <1>1, <1>2 DEF SendBlock

\* The end of an exchange.
LEMMA AfterKeeps ==
    ASSUME DlInv, NEW ok \in BOOLEAN, pc # "loop", After(pc, ok),
           ~listening', UNCHANGED <<flash, crc, taken, ground, file, request>>
    PROVE  DlInv'
<1>1. CASE pc' = "window" /\ sess' = sess
  BY <1>1 DEF DlInv, Versions, InSession, Bracketed, Shapes, Blocks
<1>2. CASE pc' = "loop" /\ sess' = [sess EXCEPT !.state = "IDLE"]
  BY <1>2 DEF DlInv, Versions, InSession, Bracketed, Shapes, Blocks
<1> QED
  BY <1>1, <1>2 DEF After, Finish

\* What the ground station does with DATA_BEGIN and DATA_END.
LEMMA DeliverKeeps ==
    ASSUME DlInv, pc \in Exchanges, Deliver(pc),
           UNCHANGED <<pc, txNext, flash, crc, taken, sess, request>>
    PROVE  DlInv'
<1>1. file' = [of |-> file'.of, blocks |-> file'.blocks]
  BY DEF Deliver, DlInv, Shapes
<1>2. CASE pc = "BEGIN"
  <2>1. ground' = [open |-> TRUE, sid |-> Sid(sess.of), total |-> Total(sess.of), held |-> Nothing]
    BY <1>2 DEF Deliver
  <2>2. Versions'
    BY <2>1 DEF DlInv, Versions, Nothing, Blocks
  <2>3. Shapes'
    BY <1>1, <2>1 DEF DlInv, Shapes, Blocks
  <2> QED
    BY <1>2, <2>2, <2>3 DEF DlInv, InSession, Bracketed
<1>3. CASE pc # "BEGIN"
  <2>1. ground' = [ground EXCEPT !.open = FALSE] \/ ground' = ground
    BY <1>3 DEF Deliver
  <2>2. ground'.held = ground.held /\ Shapes'
    BY <1>1, <2>1 DEF DlInv, Shapes, Blocks
  <2> QED
    BY <2>2 DEF DlInv, Versions, InSession, Bracketed, Reread, File, Total, Blocks
<1> QED
  BY <1>2, <1>3

\* The last window is acknowledged: what flash holds now is at least as new as what was sent.
LEMMA ReportKeeps ==
    ASSUME DlInv, NEW a, pc = "wait", TakeReport(a),
           UNCHANGED <<flash, ground, sess, file, request, listening>>
    PROVE  DlInv'
<1>1. sess.of \in DOMAIN Requests
  BY DEF DlInv, InSession
<1>2. File(sess.of) \subseteq Blocks
  BY <1>1, FileInArea
<1>3. CASE pc' = "gaps" /\ UNCHANGED <<crc, taken>>
  BY <1>3 DEF Exchanges, DlInv, Versions, InSession, Bracketed, Shapes, Blocks
<1>4. CASE /\ pc' = "crc" /\ txNext' = 0 /\ crc' = Nothing
           /\ taken' = [b \in File(sess.of) |-> flash[b]]
  <2>1. crc' \in [Blocks -> Nat]
    BY <1>4 DEF Nothing
  <2>2. \A b \in File(sess.of) : ground.held[b] <= flash[b] /\ flash[b] \in Nat
    BY <1>2 DEF DlInv, Versions
  <2>3. taken' \in [File(sess.of) -> Nat] /\ \A b \in File(sess.of) : taken'[b] = flash[b]
    BY <1>4, <2>2
  <2>4. Bracketed'
    <3>1. File(sess.of)' = File(sess.of)
      BY DEF File, Total
    <3>2. Reread' = {}
      BY <1>4 DEF Reread
    <3> QED
      BY <1>4, <2>2, <2>3, <3>1, <3>2 DEF Bracketed
  <2> QED
    BY <1>4, <2>1, <2>4 DEF Exchanges, DlInv, Versions, InSession, Shapes, Blocks
<1> QED
  BY <1>3, <1>4 DEF TakeReport

\* The second reading finds what is at least as new as what was taken.
LEMMA RereadKeeps == DlInv /\ ReadForCrc => DlInv'
<1> SUFFICES ASSUME DlInv, ReadForCrc PROVE DlInv'
  OBVIOUS
<1>1. /\ pc = "crc" /\ txNext \in Nat /\ txNext < Total(sess.of)
      /\ crc' = [crc EXCEPT ![txNext] = flash[txNext]] /\ txNext' = txNext + 1
      /\ pc' = IF txNext' = Total(sess.of) THEN "COMPLETE" ELSE "crc"
      /\ UNCHANGED <<flash, taken, ground, sess, file, request, listening>>
  BY DEF ReadForCrc, DlInv, Bracketed, comms, station
<1>2. sess.of \in DOMAIN Requests
  BY <1>1 DEF DlInv, InSession
<1>3. Total(sess.of) \in Nat /\ File(sess.of) \subseteq Blocks
  BY <1>2, FileInArea
<1>4. txNext \in File(sess.of)
  BY <1>1, <1>3 DEF File
<1>5. txNext \in Blocks /\ flash[txNext] \in Nat
  BY <1>3, <1>4 DEF DlInv, Versions
<1>6. crc' \in [Blocks -> Nat] /\ crc'[txNext] = flash[txNext]
      /\ \A b \in Blocks \ {txNext} : crc'[b] = crc[b]
  BY <1>1, <1>5 DEF DlInv, Shapes
<1>7. File(sess.of)' = File(sess.of) /\ Total(sess.of)' = Total(sess.of)
  BY <1>1 DEF File, Total
<1>8. ASSUME NEW b \in File(sess.of), b \in Reread' PROVE taken[b] <= crc'[b]
  <2>1. b \in 0..txNext
    BY <1>1, <1>3, <1>7, <1>8 DEF Reread, File
  <2>2. CASE b = txNext
    BY <1>1, <1>6, <2>2 DEF DlInv, Bracketed
  <2>3. CASE b # txNext
    <3>1. b \in Reread /\ b \in Blocks
      BY <1>1, <1>3, <2>1, <2>3 DEF Reread
    <3> QED
      BY <1>1, <1>6, <2>3, <3>1 DEF DlInv, Bracketed
  <2> QED
    BY <2>2, <2>3
<1>9. Bracketed'
  BY <1>1, <1>7, <1>8 DEF DlInv, Bracketed
<1> QED
  BY <1>1, <1>6, <1>9 DEF Exchanges, DlInv, Versions, InSession, Shapes, Blocks

LEMMA DlNextInv == DlInv /\ [DlNext]_dlvars => DlInv'
<1> SUFFICES ASSUME DlInv, [DlNext]_dlvars PROVE DlInv'
  OBVIOUS
<1> USE DEF run, comms, station, bounds
<1>0. listening => pc \in Exchanges
  BY DEF DlInv, InSession
<1>1. CASE TakeBit
  BY <1>0, <1>1, Rest DEF Exchanges, TakeBit
<1>2. CASE SawTransmit
  <2>1. CASE After(pc, FALSE) /\ UNCHANGED <<listening, station>>
    BY <1>2, <2>1, AfterKeeps DEF SawTransmit, Exchanges
  <2>2. CASE Deliver(pc) /\ UNCHANGED <<pc, sess, txNext>>
    BY <1>2, <2>2, DeliverKeeps DEF SawTransmit
  <2>3. CASE UNCHANGED <<pc, sess, txNext, ground, file>>
    BY <1>2, <2>3, Rest DEF SawTransmit
  <2> QED
    BY <1>2, <2>1, <2>2, <2>3 DEF SawTransmit
<1>3. CASE SawHear
  <2>0. pc # "loop" /\ pc \in Exchanges
    BY <1>3 DEF SawHear, DlInv, InSession, Exchanges
  <2>1. CASE After(pc, TRUE) /\ ~listening'
    BY <1>3, <2>0, <2>1, AfterKeeps DEF SawHear
  <2>2. CASE UNCHANGED <<pc, sess, txNext, listening>>
    BY <1>3, <2>0, <2>2, Rest DEF SawHear
  <2> QED
    BY <1>3, <2>1, <2>2 DEF SawHear
<1>4. CASE SawTimeout
  <2>1. pc # "loop" /\ pc \in Exchanges
    BY <1>4 DEF SawTimeout, DlInv, InSession, Exchanges
  <2>2. CASE After(pc, FALSE)
    BY <1>4, <2>1, <2>2, AfterKeeps DEF SawTimeout
  <2>3. CASE UNCHANGED <<pc, sess, txNext>>
    BY <1>4, <2>1, <2>3, Rest DEF SawTimeout
  <2> QED
    BY <1>4, <2>2, <2>3 DEF SawTimeout
<1>5. CASE SendWindow
  BY <1>5, SendBlockKeeps DEF SendWindow
<1>6. CASE EndWindow
  BY <1>0, <1>6, Rest DEF Exchanges, EndWindow
<1>7. CASE HearReport
  <2>1. CASE TakeReport(Head(air))
    BY <1>7, <2>1, ReportKeeps DEF HearReport
  <2>2. CASE UNCHANGED <<pc, txBase, txNext, retx, gaps, crc, taken>>
    BY <1>0, <1>7, <2>2, Rest DEF Exchanges, HearReport
  <2> QED
    BY <1>7, <2>1, <2>2 DEF HearReport
<1>8. CASE WindowTimeout
  BY <1>8 DEF Exchanges, WindowTimeout, DlInv, Versions, InSession, Bracketed, Shapes, Blocks
<1>9. CASE SendGap
  BY <1>9, SendBlockKeeps DEF SendGap
<1>10. CASE ReadForCrc
  BY <1>10, RereadKeeps
<1>11. CASE Reset
  BY <1>11, Rest DEF Reset
<1>12. CASE CommsBegin
  <2>1. request \in DOMAIN Requests
    BY <1>12, RequestsAssumption DEF CommsBegin, DlInv, InSession
  <2>2. request' \in Nat \ {0}
    BY <1>12 DEF CommsBegin, DlInv, InSession
  <2>3. CASE sess.state = "IDLE" /\ sess' = [state |-> "DL_ACTIVE", of |-> request]
    <3>1. pc = "loop"
      BY <2>3 DEF DlInv, InSession
    <3> QED
      BY <1>12, <2>1, <2>2, <2>3, <3>1 DEF CommsBegin, DlInv, Versions, InSession, Bracketed, Shapes, Blocks
  <2>4. CASE sess' = sess
    BY <1>12, <2>2, <2>4
    DEF CommsBegin, DlInv, Versions, InSession, Bracketed, Shapes, Reread, File, Total, Blocks
  <2> QED
    BY <1>12, <2>3, <2>4 DEF CommsBegin
<1>13. CASE WriteFlash
  <2>1. flash' \in [Blocks -> Nat] /\ \A b \in Blocks : flash[b] <= flash'[b]
    BY <1>13 DEF WriteFlash, DlInv, Versions
  <2>2. UNCHANGED <<pc, txNext, taken, crc, ground, sess, request, file, listening>>
    BY <1>13 DEF WriteFlash
  <2>3. Versions'
    BY <2>1, <2>2 DEF DlInv, Versions
  <2>4. ASSUME pc \in {"crc", "COMPLETE"}, NEW b \in File(sess.of) PROVE taken[b] <= flash'[b]
    <3>1. b \in Blocks
      BY <2>4, FileInArea DEF DlInv, InSession
    <3> QED
      BY <2>1, <2>4, <3>1 DEF DlInv, Versions, Bracketed
  <2>5. Bracketed'
    BY <2>2, <2>4 DEF DlInv, Bracketed, Reread, File, Total
  <2> QED
    BY <2>2, <2>3, <2>5 DEF DlInv, InSession, Shapes
<1>14. CASE GroundAnswer \/ AirDrop \/ LoseContact \/ DlFinished \/ UNCHANGED dlvars
  BY <1>0, <1>14, Rest DEF Exchanges, GroundAnswer, AirDrop, LoseContact, DlFinished, dlvars
<1> QED
  BY <1>1, <1>2, <1>3, <1>4, <1>5, <1>6, <1>7, <1>8, <1>9, <1>10, <1>11, <1>12, <1>13, <1>14
  DEF DlNext, RunDl

\* A file is accepted with what it held when its last window was acknowledged.
LEMMA AcceptedIsTaken ==
    ASSUME DlInv, pc = "COMPLETE", Accepts
    PROVE  [b \in File(sess.of) |-> ground.held[b]] = taken
<1>1. sess.of \in DOMAIN Requests
  BY DEF DlInv, InSession
<1>2. ASSUME NEW b \in File(sess.of) PROVE taken[b] = ground.held[b]
  <2>1. b \in Blocks
    BY <1>1, FileInArea
  <2>2. ground.held[b] = crc[b] /\ ground.held[b] <= taken[b] /\ taken[b] <= crc[b]
    BY <2>1 DEF Accepts, DlInv, Bracketed, Reread
  <2>3. ground.held[b] \in Nat /\ taken[b] \in Nat
    BY <2>1 DEF DlInv, Versions, Bracketed
  <2> QED
    BY <2>2, <2>3
<1> QED
  BY <1>2 DEF DlInv, Bracketed

\* Every step is a write, the taking of a file, the arrival of the one taken last, or none of them.
LEMMA DownloadStep ==
    DlInv /\ [DlNext]_dlvars =>
        [Promise!Write \/ Promise!Take \/ Promise!Arrive]_<<flash, taken, file.blocks>>
<1> SUFFICES ASSUME DlInv, [DlNext]_dlvars
             PROVE  \/ Promise!Write \/ Promise!Take \/ Promise!Arrive
                    \/ UNCHANGED <<flash, taken, file.blocks>>
  OBVIOUS
<1> USE DEF run, comms, station, bounds
<1>1. CASE WriteFlash
  <2>1. PICK b \in Blocks : flash' = [flash EXCEPT ![b] = @ + 1]
    BY <1>1 DEF WriteFlash
  <2>2. flash'[b] \in Nat /\ flash' = [flash EXCEPT ![b] = flash'[b]]
    BY <2>1 DEF DlInv, Versions
  <2> QED
    BY <1>1, <2>2 DEF WriteFlash, Promise!Write
<1>2. CASE HearReport
  <2>1. CASE taken' = [b \in File(sess.of) |-> flash[b]]
    <3>1. File(sess.of) \subseteq Blocks
      BY <1>2, FileInArea DEF HearReport, DlInv, InSession
    <3> QED
      BY <1>2, <2>1, <3>1 DEF HearReport, Promise!Take
  <2>2. CASE taken' = taken
    BY <1>2, <2>2 DEF HearReport
  <2> QED
    BY <1>2, <2>1, <2>2 DEF HearReport, TakeReport
<1>3. CASE SawTransmit
  <2>1. CASE file' = file
    BY <1>3, <2>1 DEF SawTransmit
  <2>2. CASE /\ pc = "COMPLETE" /\ Accepts
             /\ file' = [of |-> sess.of, blocks |-> [b \in File(sess.of) |-> ground.held[b]]]
    BY <1>3, <2>2, AcceptedIsTaken DEF SawTransmit, Promise!Arrive
  <2> QED
    BY <1>3, <2>1, <2>2 DEF SawTransmit, Deliver
<1>4. CASE \/ TakeBit \/ SawHear \/ SawTimeout \/ SendWindow \/ EndWindow \/ WindowTimeout \/ SendGap
           \/ ReadForCrc \/ Reset \/ CommsBegin \/ GroundAnswer \/ AirDrop \/ LoseContact \/ DlFinished
           \/ UNCHANGED dlvars
  BY <1>4 DEF TakeBit, SawHear, SawTimeout, SendWindow, EndWindow, WindowTimeout, SendGap,
     ReadForCrc, Reset, CommsBegin, GroundAnswer, AirDrop, LoseContact, DlFinished, dlvars
<1> QED
  BY <1>1, <1>2, <1>3, <1>4 DEF DlNext, RunDl

\* A file that the ground station accepts is what flash held at one moment, however flash is written
\* while its blocks are read and whatever is lost: the CRC of step 3 of arq_run_dl (arq.c) brackets
\* it between two readings.
THEOREM AcceptedIsASnapshotHolds == DlSpec => AcceptedIsASnapshot
<1>1. DlInit => Promise!Init
  BY DEF DlInit, Promise!Init
<1>2. QED
  BY <1>1, DlInitInv, DlNextInv, DownloadStep, PTL DEF DlSpec, AcceptedIsASnapshot, Promise!Spec

-----------------------------------------------------------------------------
(* Types of a download *)

Replies == [kind : {"ACK"}, type : Exchanges, of : Nat]
           \union [kind : {"DATA_ACK"}, sid : Nat, base : Nat, bits : SUBSET Nat]

\* A window is repeated at most MaxRetx times, so the count that ends it is one more.
RunTypes ==
    /\ pc \in Exchanges \union {"loop", "window", "wait", "gaps", "crc"}
    /\ attempt \in 0..SawMaxRetx /\ listening \in BOOLEAN
    /\ txBase \in Nat /\ txNext \in Nat
    /\ retx \in 0..MaxRetx + 1 /\ (pc \in {"window", "wait", "gaps"} => retx <= MaxRetx)

CommsTypes ==
    /\ sess \in [state : {"IDLE", "DL_ACTIVE"}, of : Nat]
    /\ request \in 1..Len(Requests) + 1 /\ bit \in BOOLEAN

BlockTypes == gaps \subseteq Blocks /\ flash \in [Blocks -> Nat] /\ crc \in [Blocks -> Nat]

GroundTypes ==
    /\ ground \in [open : BOOLEAN, sid : Nat, total : Nat, held : [Blocks -> Nat]]
    /\ asked \in BOOLEAN /\ contact \in BOOLEAN

BoundTypes == writes \in 0..MaxWrites /\ losses \in 0..MaxLosses /\ failures \in 0..MaxFailures

DlTyped == RunTypes /\ CommsTypes /\ BlockTypes /\ GroundTypes /\ BoundTypes /\ air \in Seq(Replies)

LEMMA Smallest ==
    ASSUME NEW S, S \subseteq Nat, S # {}
    PROVE  Min(S) \in S
<1>1. PICK m \in S : \A k \in S : <<k, m>> \notin OpToRel(<, Nat)
  BY WFMin, NatLessThanWellFounded, Zenon
<1>2. \A k \in S : ~(k < m)
  BY <1>1, Zenon DEF OpToRel
<1>3. \A k \in S : m <= k
  BY <1>2
<1> QED
  BY <1>3 DEF Min

LEMMA DlTypedInit == DlInit => DlTyped
<1> SUFFICES ASSUME DlInit PROVE DlTyped
  OBVIOUS
<1>1. RunTypes
  <2>1. listening \in BOOLEAN
    BY DEF DlInit
  <2> QED
    BY <2>1 DEF DlInit, RunTypes, SawMaxRetx, MaxRetx
<1>2. CommsTypes
  <2>1. bit \in BOOLEAN
    BY DEF DlInit
  <2>2. Len(Requests) \in Nat
    BY RequestsAssumption
  <2> QED
    BY <2>1, <2>2 DEF DlInit, CommsTypes
<1>3. BlockTypes
  BY DEF DlInit, BlockTypes, Nothing
<1>4. GroundTypes
  BY DEF DlInit, GroundTypes, Nothing
<1>5. BoundTypes
  BY DownlinkBoundsAssumption DEF DlInit, BoundTypes
<1> QED
  BY <1>1, <1>2, <1>3, <1>4, <1>5 DEF DlInit, DlTyped

LEMMA Lossy ==
    ASSUME BoundTypes, Vanishes \/ Arrives
    PROVE  losses' \in 0..MaxLosses
  BY DownlinkBoundsAssumption DEF BoundTypes, Arrives, Vanishes

LEMMA ReplyTyped ==
    ASSUME DlTyped, NEW f \in Replies, Reply(f)
    PROVE  air' \in Seq(Replies) /\ losses' \in 0..MaxLosses
<1>1. losses' \in 0..MaxLosses
  BY Lossy DEF Reply, DlTyped
<1>2. air \in Seq(Replies)
  BY DEF DlTyped
<1>3. air' = Append(air, f) \/ air' = air
  BY DEF Reply
<1> QED
  BY <1>1, <1>2, <1>3

LEMMA ReportTyped == DlTyped => Report \in Replies
<1> SUFFICES ASSUME DlTyped PROVE Report \in Replies
  OBVIOUS
<1>1. ground.total \in Nat /\ ground.sid \in Nat
  BY DEF DlTyped, GroundTypes
<1>2. Missing \subseteq Nat
  BY <1>1 DEF Missing
<1>3. (IF Missing = {} THEN ground.total ELSE Min(Missing)) \in Nat
  BY <1>1, <1>2, Smallest
<1>4. 0..BitmapBits - 1 \subseteq Nat
  BY WindowAssumption
<1> QED
  BY <1>1, <1>3, <1>4 DEF Report, Replies

LEMMA AfterTyped ==
    ASSUME DlTyped, NEW ok \in BOOLEAN, After(pc, ok), attempt' = 0, listening' \in BOOLEAN,
           UNCHANGED <<request, bit>>
    PROVE  RunTypes' /\ CommsTypes'
<1>1. CASE pc' = "window" /\ txBase' = 0 /\ txNext' = 0 /\ retx' = 0 /\ UNCHANGED sess
  BY <1>1 DEF DlTyped, RunTypes, CommsTypes, MaxRetx, SawMaxRetx
<1>2. CASE Finish
  <2>1. RunTypes'
    BY <1>2 DEF Finish, DlTyped, RunTypes, SawMaxRetx
  <2>2. CommsTypes'
    BY <1>2 DEF Finish, DlTyped, CommsTypes
  <2> QED
    BY <2>1, <2>2
<1> QED
  BY <1>1, <1>2 DEF After

LEMMA SendBlockTyped ==
    ASSUME DlTyped, NEW b, SendBlock(b), UNCHANGED <<asked, contact, writes, failures>>
    PROVE  GroundTypes' /\ BoundTypes'
<1>1. BoundTypes'
  BY Lossy DEF SendBlock, DlTyped, BoundTypes
<1>2. CASE ground' = ground
  BY <1>1, <1>2 DEF DlTyped, GroundTypes
<1>3. CASE ground' = [ground EXCEPT !.held[b] = flash[b]]
  <2>1. ground.held \in [Blocks -> Nat] /\ flash \in [Blocks -> Nat]
    BY DEF DlTyped, GroundTypes, BlockTypes
  <2>2. [ground.held EXCEPT ![b] = flash[b]] \in [Blocks -> Nat]
    BY <2>1
  <2>3. ground' = [ground EXCEPT !.held = [ground.held EXCEPT ![b] = flash[b]]]
    BY <1>3
  <2> QED
    BY <1>1, <2>2, <2>3 DEF DlTyped, GroundTypes
<1> QED
  BY <1>1, <1>2, <1>3 DEF SendBlock

LEMMA TakeReportTyped ==
    ASSUME DlInv, DlTyped, pc = "wait", UNCHANGED <<flash, attempt, listening>>,
           NEW a \in [kind : {"DATA_ACK"}, sid : Nat, base : Nat, bits : SUBSET Nat],
           TakeReport(a)
    PROVE  RunTypes' /\ BlockTypes'
<1>1. sess.of \in DOMAIN Requests
  BY DEF DlInv, InSession
<1>2. Total(sess.of) \in Nat /\ Total(sess.of) <= Area /\ Area \in Nat
  BY <1>1, FileInArea, RequestsAssumption DEF Total
<1>3. txNext \in Nat /\ gaps \subseteq Blocks /\ crc \in [Blocks -> Nat]
  BY DEF DlTyped, RunTypes, BlockTypes
<1>4. retx' = 0 /\ txBase' \in Nat
  BY DEF TakeReport
<1>5. pc' \in {"crc", "gaps"} /\ txNext' \in Nat /\ gaps' \subseteq Blocks /\ crc' \in [Blocks -> Nat]
  <2>1. CASE a.base >= Total(sess.of)
    BY <1>3, <2>1 DEF TakeReport, Nothing
  <2>2. CASE ~(a.base >= Total(sess.of))
    <3> DEFINE covered == Min2(a.base + 1 + BitmapBits, Total(sess.of))
    <3>1. covered \in Nat /\ covered <= Area
      BY <1>2, WindowAssumption DEF Min2
    <3>2. gaps' = {b \in a.base..covered - 1 : b - a.base - 1 \notin a.bits}
          /\ txNext' = Min2(Max2(txNext, covered), Total(sess.of))
      BY <2>2 DEF TakeReport
    <3> HIDE DEF covered
    <3>3. a.base..covered - 1 \subseteq Blocks
      BY <1>2, <3>1 DEF Blocks
    <3>4. txNext' \in Nat
      BY <1>2, <1>3, <3>1, <3>2 DEF Min2, Max2
    <3> QED
      BY <1>3, <2>2, <3>2, <3>3, <3>4 DEF TakeReport
  <2> QED
    BY <2>1, <2>2
<1>6. RunTypes'
  BY <1>4, <1>5 DEF DlTyped, RunTypes, MaxRetx
<1>7. BlockTypes'
  BY <1>5 DEF DlTyped, BlockTypes
<1> QED
  BY <1>6, <1>7

LEMMA DlTypedNext == DlInv /\ DlTyped /\ [DlNext]_dlvars => DlTyped'
<1> SUFFICES ASSUME DlInv, DlTyped, [DlNext]_dlvars PROVE DlTyped'
  OBVIOUS
<1> USE DEF run, comms, station, bounds
<1>u. /\ UNCHANGED run => RunTypes'
      /\ UNCHANGED comms => CommsTypes'
      /\ UNCHANGED <<gaps, flash, crc>> => BlockTypes'
      /\ UNCHANGED <<ground, asked, contact>> => GroundTypes'
      /\ UNCHANGED bounds => BoundTypes'
      /\ UNCHANGED air => (air \in Seq(Replies))'
      /\ air # <<>> /\ air' = Tail(air) => (air \in Seq(Replies))'
  <2>1. UNCHANGED run => RunTypes'
    BY DEF DlTyped, RunTypes
  <2>2. UNCHANGED comms => CommsTypes'
    BY DEF DlTyped, CommsTypes
  <2>3. UNCHANGED <<gaps, flash, crc>> => BlockTypes'
    BY DEF DlTyped, BlockTypes
  <2>4. UNCHANGED <<ground, asked, contact>> => GroundTypes'
    BY DEF DlTyped, GroundTypes
  <2>5. UNCHANGED bounds => BoundTypes'
    BY DEF DlTyped, BoundTypes
  <2>6. air \in Seq(Replies)
    BY DEF DlTyped
  <2>7. air # <<>> => Tail(air) \in Seq(Replies)
    BY <2>6
  <2> QED
    BY <2>1, <2>2, <2>3, <2>4, <2>5, <2>6, <2>7
<1>f. failures < MaxFailures /\ failures' = failures + 1 /\ UNCHANGED <<writes, losses>> => BoundTypes'
  BY DownlinkBoundsAssumption DEF DlTyped, BoundTypes
<1>s. listening => pc \in Exchanges
  BY DEF DlInv, InSession
<1>1. CASE TakeBit
  <2>1. RunTypes' /\ CommsTypes'
    BY <1>1 DEF TakeBit, DlTyped, RunTypes, CommsTypes, Exchanges
  <2>2. BoundTypes'
    BY <1>1, <1>f, <1>u DEF TakeBit
  <2> QED
    BY <1>1, <1>u, <2>1, <2>2 DEF TakeBit, DlTyped
<1>2. CASE SawTransmit
  <2>1. BlockTypes'
    BY <1>2, <1>u DEF SawTransmit
  <2>2. CASE After(pc, FALSE) /\ attempt' = 0 /\ failures' = failures + 1 /\ failures < MaxFailures
             /\ UNCHANGED <<station, listening, losses, contact>>
    <3>1. BoundTypes'
      BY <1>2, <1>f, <2>2 DEF SawTransmit
    <3>2. listening' \in BOOLEAN /\ UNCHANGED <<request, bit>>
      BY <1>2, <2>2 DEF SawTransmit, DlTyped, RunTypes
    <3>3. RunTypes' /\ CommsTypes'
      BY <2>2, <3>2, AfterTyped
    <3> QED
      BY <1>u, <2>1, <2>2, <3>1, <3>3 DEF DlTyped
  <2>3. CASE /\ listening' = TRUE
             /\ \/ Deliver(pc) /\ Reply(Ack(pc))
                \/ Vanishes /\ UNCHANGED <<air, ground, file>>
             /\ UNCHANGED <<sess, pc, attempt, txBase, txNext, retx, asked, failures, contact>>
    <3>1. sess.of \in DOMAIN Requests /\ sess.of \in Nat
      BY <1>2 DEF SawTransmit, DlInv, InSession, Exchanges, DlTyped, CommsTypes
    <3>2. Ack(pc) \in Replies
      BY <1>2, <3>1 DEF SawTransmit, Ack, Replies
    <3>3. air' \in Seq(Replies) /\ losses' \in 0..MaxLosses
      BY <2>3, <3>2, ReplyTyped, Lossy DEF DlTyped
    <3>4. Sid(sess.of) \in Nat /\ Total(sess.of) \in Nat
      <4>1. Requests[sess.of] \in Download
        BY <3>1, RequestsAssumption
      <4> QED
        BY <4>1 DEF Sid, Total, Download
    <3>5. GroundTypes'
      <4>1. CASE ground' = ground
        BY <1>u, <2>3, <4>1
      <4>2. CASE ground' = [open |-> TRUE, sid |-> Sid(sess.of), total |-> Total(sess.of), held |-> Nothing]
        BY <2>3, <3>4, <4>2 DEF GroundTypes, DlTyped, Nothing
      <4>3. CASE ground' = [ground EXCEPT !.open = FALSE]
        BY <2>3, <4>3 DEF GroundTypes, DlTyped
      <4> QED
        BY <2>3, <4>1, <4>2, <4>3 DEF Deliver
    <3>6. RunTypes' /\ CommsTypes'
      BY <1>2, <2>3 DEF SawTransmit, DlTyped, RunTypes, CommsTypes
    <3>7. BoundTypes'
      BY <1>2, <2>3, <3>3 DEF SawTransmit, DlTyped, BoundTypes
    <3> QED
      BY <2>1, <3>3, <3>5, <3>6, <3>7 DEF DlTyped
  <2> QED
    BY <1>2, <2>2, <2>3 DEF SawTransmit
<1>3. CASE SawHear
  <2>1. CASE listening' = FALSE /\ attempt' = 0 /\ After(pc, TRUE)
    <3>1. RunTypes' /\ CommsTypes'
      BY <1>3, <2>1, AfterTyped DEF SawHear
    <3> QED
      BY <1>3, <1>u, <3>1 DEF SawHear, DlTyped
  <2>2. CASE UNCHANGED <<listening, attempt, pc, sess, txBase, txNext, retx>>
    BY <1>3, <1>u, <2>2 DEF SawHear, DlTyped
  <2> QED
    BY <1>3, <2>1, <2>2 DEF SawHear
<1>4. CASE SawTimeout
  <2>1. CASE attempt < SawMaxRetx /\ attempt' = attempt + 1 /\ UNCHANGED <<pc, sess, txBase, txNext, retx>>
    <3>1. listening' \in BOOLEAN
      BY <1>4 DEF SawTimeout
    <3>2. RunTypes'
      BY <1>4, <2>1, <3>1 DEF SawTimeout, DlTyped, RunTypes, SawMaxRetx
    <3> QED
      BY <1>4, <1>u, <2>1, <3>2 DEF SawTimeout, DlTyped
  <2>2. CASE attempt' = 0 /\ After(pc, FALSE)
    <3>1. RunTypes' /\ CommsTypes'
      BY <1>4, <2>2, AfterTyped DEF SawTimeout
    <3> QED
      BY <1>4, <1>u, <3>1 DEF SawTimeout, DlTyped
  <2> QED
    BY <1>4, <2>1, <2>2 DEF SawTimeout
<1>5. CASE SendWindow
  <2>1. GroundTypes' /\ BoundTypes'
    BY <1>5, SendBlockTyped DEF SendWindow, SendBlock, Arrives, Vanishes
  <2>2. RunTypes'
    BY <1>5 DEF SendWindow, DlTyped, RunTypes
  <2> QED
    BY <1>5, <1>u, <2>1, <2>2 DEF SendWindow, DlTyped
<1>6. CASE EndWindow
  <2>1. RunTypes' /\ GroundTypes'
    BY <1>6 DEF EndWindow, DlTyped, RunTypes, GroundTypes
  <2> QED
    BY <1>6, <1>u, <2>1 DEF EndWindow, DlTyped
<1>7. CASE HearReport
  <2>1. (air \in Seq(Replies))' /\ Head(air) \in Replies
    BY <1>7, <1>u DEF HearReport, DlTyped
  <2>2. CASE Head(air).kind = "DATA_ACK" /\ TakeReport(Head(air))
    <3>1. Head(air) \in [kind : {"DATA_ACK"}, sid : Nat, base : Nat, bits : SUBSET Nat]
      BY <2>1, <2>2 DEF Replies
    <3>2. RunTypes' /\ BlockTypes'
      BY <1>7, <2>2, <3>1, TakeReportTyped DEF HearReport
    <3> QED
      BY <1>7, <1>u, <2>1, <3>2 DEF HearReport, DlTyped
  <2>3. CASE UNCHANGED <<pc, txBase, txNext, retx, gaps, crc, taken>>
    BY <1>7, <1>u, <2>1, <2>3 DEF HearReport, DlTyped
  <2> QED
    BY <1>7, <2>2, <2>3 DEF HearReport
<1>8. CASE WindowTimeout
  <2>1. BoundTypes'
    BY <1>8, <1>f, <1>u DEF WindowTimeout
  <2>2. RunTypes'
    BY <1>8 DEF WindowTimeout, DlTyped, RunTypes, MaxRetx, Exchanges
  <2> QED
    BY <1>8, <1>u, <2>1, <2>2 DEF WindowTimeout, DlTyped
<1>9. CASE SendGap
  <2>1. GroundTypes' /\ BoundTypes'
    BY <1>9, SendBlockTyped DEF SendGap
  <2>2. RunTypes' /\ BlockTypes'
    BY <1>9 DEF SendGap, DlTyped, RunTypes, BlockTypes
  <2> QED
    BY <1>9, <1>u, <2>1, <2>2 DEF SendGap, DlTyped
<1>10. CASE ReadForCrc
  <2>1. crc' \in [Blocks -> Nat]
    BY <1>10, RereadKeeps DEF DlInv, Shapes
  <2>2. RunTypes' /\ BlockTypes'
    BY <1>10, <2>1 DEF ReadForCrc, DlTyped, RunTypes, BlockTypes, Exchanges
  <2> QED
    BY <1>10, <1>u, <2>2 DEF ReadForCrc, DlTyped
<1>11. CASE Reset
  <2>b. listening' \in BOOLEAN /\ bit' \in BOOLEAN
    BY <1>11 DEF Reset
  <2>1. RunTypes'
    BY <1>11, <2>b DEF Reset, DlTyped, RunTypes, SawMaxRetx
  <2>2. CommsTypes'
    BY <1>11, <2>b DEF Reset, DlTyped, CommsTypes
  <2> QED
    BY <1>11, <1>f, <1>u, <2>1, <2>2 DEF Reset, DlTyped
<1>12. CASE CommsBegin
  <2>1. Len(Requests) \in Nat
    BY RequestsAssumption
  <2>b. bit' \in BOOLEAN
    BY <1>12 DEF CommsBegin, DlTyped, CommsTypes
  <2>2. CommsTypes'
    BY <1>12, <2>1, <2>b DEF CommsBegin, DlTyped, CommsTypes
  <2> QED
    BY <1>12, <1>u, <2>2 DEF CommsBegin, DlTyped
<1>13. CASE WriteFlash
  <2>1. BlockTypes'
    BY <1>13 DEF WriteFlash, DlTyped, BlockTypes
  <2>2. BoundTypes'
    BY <1>13, DownlinkBoundsAssumption DEF WriteFlash, DlTyped, BoundTypes
  <2> QED
    BY <1>13, <1>u, <2>1, <2>2 DEF WriteFlash, DlTyped
<1>14. CASE GroundAnswer
  <2>1. (air \in Seq(Replies))' /\ losses' \in 0..MaxLosses
    BY <1>14, ReportTyped, ReplyTyped DEF GroundAnswer
  <2>2. GroundTypes' /\ BoundTypes'
    BY <1>14, <2>1 DEF GroundAnswer, DlTyped, GroundTypes, BoundTypes
  <2> QED
    BY <1>14, <1>u, <2>1, <2>2 DEF GroundAnswer, DlTyped
<1>15. CASE LoseContact
  <2>1. GroundTypes'
    BY <1>15 DEF LoseContact, DlTyped, GroundTypes
  <2> QED
    BY <1>15, <1>u, <2>1 DEF LoseContact, DlTyped
<1>16. CASE AirDrop \/ DlFinished \/ UNCHANGED dlvars
  BY <1>16, <1>u DEF AirDrop, DlFinished, dlvars, DlTyped
<1> QED
  BY <1>1, <1>2, <1>3, <1>4, <1>5, <1>6, <1>7, <1>8, <1>9, <1>10, <1>11, <1>12, <1>13, <1>14, <1>15,
     <1>16 DEF DlNext, RunDl

\* Type correctness of a download, for every list of requests, window and number of losses: retries
\* are counted to their limits, and no DATA_ACK moves a block outside the source area
\* (arq_run_dl, arq.c).
THEOREM DlTypeOKHolds == DlSpec => []DlTypeOK
<1>1. DlTyped => DlTypeOK
  BY DEF DlTyped, RunTypes, CommsTypes, BlockTypes, GroundTypes, BoundTypes, DlTypeOK
<1>2. QED
  BY <1>1, DlInitInv, DlNextInv, DlTypedInit, DlTypedNext, PTL DEF DlSpec
===============================================================================
