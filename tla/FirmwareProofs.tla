--------------------------- MODULE FirmwareProofs ---------------------------
(***************************************************************************)
(* What the two tasks of module Firmware keep, for every size of the pool, *)
(* of its buffers and of the texts: the four buffers stay apart, and a     *)
(* report carries its own round's bytes, in one piece or not at all.       *)
(***************************************************************************)
EXTENDS Firmware, SequenceTheorems, FiniteSetTheorems, TLAPS

Ring == INSTANCE BufferPoolProofs WITH Holder <- Task

\* Where a byte of the buffers comes from.
Origin == Task \cup {"untouched", "text", "count"}

Cell == Origin \X Nat \X Nat

Looping == {"loop", "read", "compose", "write"}

\* How far a task has come in getting its two buffers.
HasTx(t) == stage[t] \in Looping \/ (t = "usb" /\ stage[t] \in {"greet", "delay"})
HasRx(t) == stage[t] \in {"ask tx", "own tx"} \/ HasTx(t)

Asked(t) == IF HasTx(t) \/ stage[t] = "own tx" THEN 2
            ELSE IF HasRx(t) \/ stage[t] = "own rx" THEN 1 ELSE 0

Types ==
    /\ running \in Task
    /\ stage \in [Task -> {"ask rx", "own rx", "ask tx", "own tx", "greet",
                           "delay"} \cup Looping]
    /\ stage["uart"] # "delay"
    /\ mem \in [Pool!Index -> [Place -> Cell]]
    /\ rx \in [Task -> Pool!Index \cup {None}]
    /\ tx \in [Task -> Pool!Index \cup {None}]
    /\ len \in [Task -> 0..Size]
    /\ round \in [Task -> {0, 1}]
    /\ filled \in [Task -> 0..Size]
    /\ ok \in [Task -> BOOLEAN]
    /\ written \in [Task -> 0..5]
    /\ DOMAIN sent = Task

\* The requests and the buffers a task holds follow from where it stands.
Stations ==
    /\ requests = Asked("usb") + Asked("uart")
    /\ \A t \in Task :
          /\ handle[t] # None <=> stage[t] \in {"own rx", "own tx"}
          /\ rx[t] # None <=> HasRx(t)
          /\ tx[t] # None <=> HasTx(t)

\* The buffers of the two tasks are four, and the pool knows them as slices.
Apart ==
    /\ \A t \in Task : {rx[t], tx[t]} \subseteq slices \cup {None}
    /\ \A t \in Task : rx[t] # None => rx[t] # tx[t]
    /\ {rx["usb"], tx["usb"]} \cap {rx["uart"], tx["uart"]} \subseteq {None}

\* The bytes of the present read are in place.
Read(t) ==
    /\ stage[t] \in {"read", "compose", "write"} =>
          \A p \in 1..filled[t] : mem[rx[t]][p] = Byte(t, round[t], p)
    /\ ok[t] => filled[t] > 0
    /\ ~HasTx(t) \/ stage[t] \in {"greet", "delay"} => ~ok[t] /\ len[t] = 0

\* The first n bytes of the present read stand in tx_buffer behind the
\* from-th place, and there is only text besides them.
Stands(t, from, n) ==
    /\ {p \in 1..len[t] : IsPayload(mem[tx[t]][p])} = (from + 1)..(from + n)
    /\ \A i \in 1..n : mem[tx[t]][from + i] = Byte(t, round[t], i)

Ahead(t) == IF t = "uart" THEN PrefixLen ELSE 0

\* Pieces of the report before its payload.
Lead(t) == IF t = "uart" THEN 1 ELSE 0

\* A report as far as it is composed: text until the payload is due, then the
\* payload entirely, or not at all because it did not fit.
Composing(t) ==
    /\ stage[t] = "read" => written[t] = 0 /\ len[t] = 0
    /\ stage[t] \in {"compose", "write"} =>
          /\ written[t] = 0 => len[t] = 0
          /\ ok[t] /\ written[t] <= Lead(t) => len[t] <= Ahead(t)
          /\ \E from \in 0..len[t], n \in {0, Expected(t)} :
                /\ Stands(t, from, n)
                /\ ok[t] /\ written[t] <= Lead(t) => n = 0
                /\ \/ ok[t] /\ written[t] <= Lead(t)
                   \/ n = Expected(t)
                   \/ Ahead(t) + Expected(t) > Size
    /\ stage[t] = "write" /\ ok[t] => written[t] > Lead(t)

\* What the last write gave away.
Sent(t) ==
    /\ stage[t] # "loop" => sent[t] = <<>>
    /\ Len(sent[t]) <= len[t]
    /\ stage[t] = "loop" =>
          \E n \in 0..Expected(t) :
             /\ Carries(t, n)
             /\ Len(sent[t]) = len[t] => n \in {0, Expected(t)}
             /\ Len(sent[t]) = len[t] =>
                   n = Expected(t) \/ Ahead(t) + Expected(t) > Size

Inv ==
    /\ Types
    /\ Stations
    /\ Apart
    /\ \A t \in Task : Read(t) /\ Composing(t) /\ Sent(t)

PoolInv == Ring!TypeOK /\ Ring!FirstRoundDistinct

-----------------------------------------------------------------------------
(* The pool underneath.                                                    *)

LEMMA TaskFinite == IsFiniteSet(Task) /\ Cardinality(Task) = 2
<1>1. IsFiniteSet({}) /\ Cardinality({}) = 0
  BY FS_EmptySet
<1>2. IsFiniteSet({"usb"}) /\ Cardinality({"usb"}) = 1
  BY <1>1, FS_Singleton
<1>3. IsFiniteSet({"usb"} \cup {"uart"}) /\ Cardinality({"usb"} \cup {"uart"}) = 2
  BY <1>2, FS_AddElement
<1>4. Task = {"usb"} \cup {"uart"}
  BY DEF Task
<1>5. QED
  BY <1>3, <1>4

\* What module BufferPool asks of its constants and of its holders.
LEMMA PoolFits ==
    Ring!PoolAssumption /\ Ring!NoneAssumption /\ Ring!EnoughBuffers
<1>1. Ring!IsFiniteSet(Task)
  BY TaskFinite DEF IsFiniteSet, Ring!IsFiniteSet
<1>2. Ring!Cardinality(Task) = 2
  BY TaskFinite DEF Cardinality, Ring!Cardinality, IsFiniteSet, Ring!IsFiniteSet
<1>3. QED
  BY <1>1, <1>2, FirmwareAssumption
     DEF Ring!PoolAssumption, Ring!NoneAssumption, Ring!EnoughBuffers, Ring!Index

LEMMA PoolInit == Init => Ring!Init
BY DEF Init, Pool!Init, Ring!Init, Pool!Index, Ring!Index

\* Awaiting a BufferRequest and turning the handle into a slice are all that
\* the tasks do to the pool.
LEMMA PoolStep == [Next]_vars => [Ring!Next]_(Ring!vars)
<1>1. ASSUME NEW t \in Task, AskBuffer(t)
      PROVE  Ring!Next
  <2>1. Ring!poll(t)
    BY <1>1 DEF AskBuffer, Pool!poll, Ring!poll, Pool!try_alloc, Ring!try_alloc,
                Pool!Index, Ring!Index
  <2>2. QED
    BY <2>1 DEF Ring!Next
<1>2. ASSUME NEW t \in Task, IntoSlice(t) \/ IntoFlatBuffer(t)
      PROVE  Ring!Next
  <2>1. Pool!from(t)
    BY <1>2 DEF IntoSlice, IntoFlatBuffer
  <2>2. Ring!from(t)
    BY <2>1 DEF Pool!from, Ring!from, Pool!release_buffer, Ring!release_buffer,
                Pool!Refused, Ring!Refused, Pool!PutBack, Ring!PutBack,
                Pool!allocator, Ring!allocator
  <2>3. QED
    BY <2>2 DEF Ring!Next
<1>3. ASSUME NEW t \in Task,
             \/ Pending(t) \/ Resume(t) \/ StartRound(t) \/ Compose(t) \/ Composed(t)
             \/ \E n \in 0..Size : Write(t, n)
             \/ \E n \in 0..(Size - filled[t]), success \in BOOLEAN :
                   ReadEnds(t, n, success)
             \/ \E n \in 1..(Size - filled["uart"]) : ReadOn(n)
      PROVE  UNCHANGED poolVars
  BY <1>3 DEF Pending, Resume, StartRound, Compose, Composed, Write, ReadEnds, ReadOn
<1>4. UNCHANGED poolVars => UNCHANGED Ring!vars
  BY DEF poolVars, Ring!vars, Ring!allocator
<1>5. UNCHANGED vars => UNCHANGED poolVars
  BY DEF vars
<1>6. "usb" \in Task
  BY DEF Task
<1>7. QED
  BY <1>1, <1>2, <1>3, <1>4, <1>5, <1>6 DEF Next, Begin

\* The tasks use the pool as module BufferPool describes its holders.
THEOREM TasksUsePool == Spec => Pool!Spec
<1>1. Ring!Init <=> Pool!Init
  BY DEF Pool!Init, Ring!Init, Pool!Index, Ring!Index
<1>2. Init => Pool!Init
  BY PoolInit, <1>1
<1>3. [Next]_vars => [Pool!Next]_(Pool!vars)
  <2>1. Ring!Next => Pool!Next
    BY DEF Pool!Next, Ring!Next, Pool!poll, Ring!poll, Pool!try_alloc,
           Ring!try_alloc, Pool!drop, Ring!drop, Pool!from, Ring!from,
           Pool!release_buffer, Ring!release_buffer, Pool!Refused, Ring!Refused,
           Pool!PutBack, Ring!PutBack,
           Pool!allocator, Ring!allocator, Pool!Index, Ring!Index
  <2>2. UNCHANGED Ring!vars => UNCHANGED Pool!vars
    BY DEF Pool!vars, Ring!vars, Pool!allocator, Ring!allocator
  <2>3. QED
    BY PoolStep, <2>1, <2>2
<1>4. QED
  BY <1>2, <1>3, PTL DEF Spec, Pool!Spec

\* So that its theorems hold here.
LEMMA PoolInvariance == Spec => []PoolInv
<1>1. Spec => Ring!Spec
  BY PoolInit, PoolStep, PTL DEF Spec, Ring!Spec
<1>2. Ring!Spec => []Ring!TypeOK
  BY PoolFits, Ring!PoolTyped DEF Ring!PoolAssumption, Ring!NoneAssumption
<1>3. Ring!Spec => []Ring!FirstRoundDistinct
  BY PoolFits, Ring!FirstRoundApart DEF Ring!PoolAssumption, Ring!NoneAssumption
<1>4. Ring!TypeOK /\ Ring!FirstRoundDistinct => PoolInv
  BY DEF PoolInv
<1>5. QED
  BY <1>1, <1>2, <1>3, <1>4, PTL

-----------------------------------------------------------------------------
(* Where a task goes on.                                                   *)

\* The stages of a task differ from each other.
LEMMA FollowingAt ==
    ASSUME NEW t \in Task, NEW k \in Nat, k \in 1..(Len(Stages(t)) - 1),
           Len(Stages(t)) \in Nat,
           \A i, j \in 1..Len(Stages(t)) : Stages(t)[i] = Stages(t)[j] => i = j
    PROVE  Following(t, Stages(t)[k]) = Stages(t)[k + 1]
<1> DEFINE i == CHOOSE i \in 1..Len(Stages(t)) : Stages(t)[i] = Stages(t)[k]
<1>1. k \in 1..Len(Stages(t)) /\ Stages(t)[k] = Stages(t)[k]
  OBVIOUS
<1>2. i \in 1..Len(Stages(t)) /\ Stages(t)[i] = Stages(t)[k]
  BY <1>1
<1>3. i = k
  BY <1>1, <1>2
<1>4. QED
  BY <1>3 DEF Following

LEMMA FollowingIs ==
    /\ Following("usb", "ask rx") = "own rx"
    /\ Following("usb", "own rx") = "ask tx"
    /\ Following("usb", "ask tx") = "own tx"
    /\ Following("usb", "own tx") = "greet"
    /\ Following("usb", "greet") = "delay"
    /\ Following("usb", "delay") = "loop"
    /\ Following("uart", "greet") = "ask rx"
    /\ Following("uart", "ask rx") = "own rx"
    /\ Following("uart", "own rx") = "ask tx"
    /\ Following("uart", "ask tx") = "own tx"
    /\ Following("uart", "own tx") = "loop"
<1>1. /\ Len(Stages("usb")) = 7
      /\ \A i, j \in 1..7 : Stages("usb")[i] = Stages("usb")[j] => i = j
  BY DEF Stages
<1>2. ASSUME NEW k \in 1..6
      PROVE  Following("usb", Stages("usb")[k]) = Stages("usb")[k + 1]
  <2>1. "usb" \in Task /\ k \in Nat /\ k \in 1..(Len(Stages("usb")) - 1)
    BY <1>1 DEF Task
  <2>2. \A i, j \in 1..Len(Stages("usb")) : Stages("usb")[i] = Stages("usb")[j] => i = j
    BY <1>1
  <2>3. Len(Stages("usb")) \in Nat
    BY <1>1
  <2>4. QED
    BY <2>1, <2>2, <2>3, FollowingAt
<1>3. /\ Following("usb", Stages("usb")[1]) = Stages("usb")[2]
      /\ Following("usb", Stages("usb")[2]) = Stages("usb")[3]
      /\ Following("usb", Stages("usb")[3]) = Stages("usb")[4]
      /\ Following("usb", Stages("usb")[4]) = Stages("usb")[5]
      /\ Following("usb", Stages("usb")[5]) = Stages("usb")[6]
      /\ Following("usb", Stages("usb")[6]) = Stages("usb")[7]
  BY <1>2
<1>4. /\ Len(Stages("uart")) = 6
      /\ \A i, j \in 1..6 : Stages("uart")[i] = Stages("uart")[j] => i = j
  BY DEF Stages
<1>5. ASSUME NEW k \in 1..5
      PROVE  Following("uart", Stages("uart")[k]) = Stages("uart")[k + 1]
  <2>1. "uart" \in Task /\ k \in Nat /\ k \in 1..(Len(Stages("uart")) - 1)
    BY <1>4 DEF Task
  <2>2. \A i, j \in 1..Len(Stages("uart")) : Stages("uart")[i] = Stages("uart")[j] => i = j
    BY <1>4
  <2>3. Len(Stages("uart")) \in Nat
    BY <1>4
  <2>4. QED
    BY <2>1, <2>2, <2>3, FollowingAt
<1>6. /\ Following("uart", Stages("uart")[1]) = Stages("uart")[2]
      /\ Following("uart", Stages("uart")[2]) = Stages("uart")[3]
      /\ Following("uart", Stages("uart")[3]) = Stages("uart")[4]
      /\ Following("uart", Stages("uart")[4]) = Stages("uart")[5]
      /\ Following("uart", Stages("uart")[5]) = Stages("uart")[6]
  BY <1>5
<1>7. QED
  BY <1>3, <1>6 DEF Stages

-----------------------------------------------------------------------------
(* Steps that leave a task's bytes alone.                                  *)

Same(t) ==
    /\ UNCHANGED <<rx[t], tx[t], len[t], round[t], filled[t], ok[t], written[t], sent[t]>>
    /\ tx[t] # None => mem'[tx[t]] = mem[tx[t]]
    /\ rx[t] # None => mem'[rx[t]] = mem[rx[t]]

\* What a task has read, composed and sent depends on its own buffers alone.
LEMMA Frame ==
    ASSUME Types, Stations, NEW t \in Task, Same(t), UNCHANGED stage[t],
           Read(t), Composing(t), Sent(t)
    PROVE  Read(t)' /\ Composing(t)' /\ Sent(t)'
<1>0. UNCHANGED <<rx[t], tx[t], len[t], round[t], filled[t], ok[t], written[t], sent[t], stage[t]>>
  BY DEF Same
<1>1. stage[t] \in Looping => mem'[rx[t]] = mem[rx[t]] /\ mem'[tx[t]] = mem[tx[t]]
  BY DEF Same, Stations, HasRx, HasTx
<1>2. HasTx(t)' = HasTx(t)
  BY <1>0 DEF HasTx
<1>3. Expected(t)' = Expected(t)
  BY <1>0 DEF Expected, PayloadLen
<1>4. Read(t)'
  BY <1>0, <1>1, <1>2 DEF Read, Looping
<1>5. Composing(t)'
  <2>1. CASE stage[t] \in {"compose", "write"}
    <3>1. \A from, n : Stands(t, from, n)' <=> Stands(t, from, n)
      BY <1>0, <1>1, <2>1 DEF Stands, Looping
    <3>2. QED
      BY <1>0, <1>3, <2>1, <3>1 DEF Composing
  <2>2. CASE stage[t] \notin {"compose", "write"}
    BY <1>0, <2>2 DEF Composing
  <2>3. QED
    BY <2>1, <2>2
<1>6. Sent(t)'
  <2>1. \A n : Carries(t, n)' <=> Carries(t, n)
    BY <1>0 DEF Carries
  <2>2. QED
    BY <1>0, <1>3, <2>1 DEF Sent
<1>7. QED
  BY <1>4, <1>5, <1>6

\* What a cell holds, and which cells are payload.
LEMMA ByteIs ==
    ASSUME NEW from \in Origin, NEW parity \in Nat, NEW n \in Nat
    PROVE  /\ Byte(from, parity, n) \in Cell
           /\ IsPayload(Byte(from, parity, n)) <=> from \notin {"text", "count"}
BY DEF Byte, Cell, IsPayload

\* Nothing sent is no payload.
LEMMA NothingSent ==
    ASSUME NEW t \in Task, sent[t] = <<>>
    PROVE  Carries(t, 0)
<1>1. Len(sent[t]) = 0
  OBVIOUS
<1>2. {p \in 1..Len(sent[t]) : IsPayload(sent[t][p])} = (0 + 1)..(0 + 0)
  BY <1>1
<1>3. QED
  BY <1>1, <1>2 DEF Carries

LEMMA InitInv == Init => Inv
<1> SUFFICES ASSUME Init
             PROVE  Inv
  OBVIOUS
<1>1. stage["usb"] = "ask rx" /\ stage["uart"] = "greet" /\ DOMAIN stage = Task
  BY DEF Init, Stages, Task
<1>2. Types
  <2>1. mem \in [Pool!Index -> [Place -> Cell]]
    <3>1. Untouched \in Cell
      BY ByteIs DEF Untouched, Origin
    <3>2. QED
      BY <3>1 DEF Init
  <2>2. stage = [t \in Task |-> Stages(t)[1]]
    BY DEF Init
  <2>3. stage \in [Task -> {"ask rx", "own rx", "ask tx", "own tx", "greet",
                            "delay"} \cup Looping]
    BY <1>1, <2>2 DEF Task
  <2>4. Size \in Nat
    BY FirmwareAssumption
  <2>5. /\ rx \in [Task -> Pool!Index \cup {None}] /\ tx \in [Task -> Pool!Index \cup {None}]
        /\ running \in Task /\ DOMAIN sent = Task
    BY DEF Init, Task
  <2>6. /\ len \in [Task -> 0..Size] /\ filled \in [Task -> 0..Size]
        /\ round \in [Task -> {0, 1}] /\ written \in [Task -> 0..5]
    BY <2>4 DEF Init
  <2>7. ok \in [Task -> BOOLEAN]
    BY DEF Init
  <2>8. stage["uart"] # "delay"
    BY <1>1
  <2>9. QED
    BY <2>1, <2>3, <2>5, <2>6, <2>7, <2>8 DEF Types
<1>3. Stations
  <2>1. requests = 0 /\ handle = [t \in Task |-> None]
    BY DEF Init, Pool!Init
  <2>2. \A t \in Task : rx[t] = None /\ tx[t] = None /\ ~HasRx(t) /\ ~HasTx(t)
    BY <1>1 DEF Init, HasRx, HasTx, Task, Looping
  <2>3. Asked("usb") = 0 /\ Asked("uart") = 0
    BY <1>1, <2>2 DEF Asked, Task
  <2>4. requests = Asked("usb") + Asked("uart")
    BY <2>1, <2>3
  <2>5. \A t \in Task : handle[t] = None /\ stage[t] \notin {"own rx", "own tx"}
    BY <1>1, <2>1 DEF Task
  <2>6. QED
    BY <2>2, <2>4, <2>5 DEF Stations
<1>4. Apart
  BY DEF Init, Apart, Task
<1>5. ASSUME NEW t \in Task
      PROVE  Read(t) /\ Composing(t) /\ Sent(t)
  <2>1. /\ stage[t] \notin Looping
        /\ ~ok[t] /\ len[t] = 0 /\ sent[t] = <<>>
    BY <1>1 DEF Init, Task, Looping
  <2>2. Read(t)
    BY <2>1 DEF Read, Looping
  <2>3. Composing(t) /\ Sent(t)
    BY <2>1 DEF Composing, Sent, Looping
  <2>4. QED
    BY <2>2, <2>3
<1>6. QED
  BY <1>2, <1>3, <1>4, <1>5 DEF Inv

-----------------------------------------------------------------------------
(* Getting the buffers.                                                    *)

\* Four requests are never more than the pool has buffers, so that a handle
\* never holds a buffer that lives on in a slice.
LEMMA HandleIsNew ==
    ASSUME Types, Stations, PoolInv, NEW t \in Task
    PROVE  requests \in 0..4 /\ handle[t] \notin slices
<1>1. \A u \in Task : Asked(u) \in 0..2
  BY DEF Asked
<1>2. requests \in 0..4
  <2>1. requests = Asked("usb") + Asked("uart")
    BY DEF Stations
  <2>2. Asked("usb") \in 0..2 /\ Asked("uart") \in 0..2
    BY <1>1 DEF Task
  <2>3. QED
    BY <2>1, <2>2
<1>3. requests <= BUFFER_COUNT
  BY <1>2, FirmwareAssumption
<1>4. QED
  BY <1>2, <1>3 DEF PoolInv, Ring!FirstRoundDistinct

LEMMA BeginKeeps ==
    ASSUME Inv, PoolInv, PoolInv', NEW t \in Task, Begin(t)
    PROVE  Inv'
<1>1. /\ stage' = [stage EXCEPT ![t] = Following(t, stage[t])]
      /\ stage[t] \in {"greet", "delay", "ask rx", "ask tx", "own rx", "own tx"}
      /\ UNCHANGED <<running, mem, round, filled, ok, len, written, sent>>
  BY DEF Begin, Resume, AskBuffer, IntoSlice, IntoFlatBuffer, At, Goto,
         readVars, reportVars
<1>2. /\ Types /\ Stations /\ Apart
      /\ \A u \in Task : Read(u) /\ Composing(u) /\ Sent(u)
  BY DEF Inv
<1>3. Ring!TypeOK /\ Ring!TypeOK'
  BY DEF PoolInv
<1>4. /\ handle \in [Task -> Pool!Index \cup {None}]
      /\ handle' \in [Task -> Pool!Index \cup {None}]
      /\ None \notin Pool!Index
  BY <1>3, FirmwareAssumption DEF Ring!TypeOK, Ring!Index, Pool!Index
<1>5. \/ Resume(t) \/ AskBuffer(t) \/ IntoSlice(t) \/ IntoFlatBuffer(t)
  BY DEF Begin
<1>6. /\ IF stage[t] = "own rx" THEN rx' = [rx EXCEPT ![t] = handle[t]] ELSE rx' = rx
      /\ IF stage[t] = "own tx" THEN tx' = [tx EXCEPT ![t] = handle[t]] ELSE tx' = tx
      /\ IF stage[t] \in {"own rx", "own tx"} THEN slices' = slices \cup {handle[t]}
                                              ELSE slices' = slices
  <2>1. CASE Resume(t) \/ AskBuffer(t)
    BY <2>1 DEF Resume, AskBuffer, Pool!poll, bufferVars, poolVars
  <2>2. CASE IntoSlice(t) \/ IntoFlatBuffer(t)
    BY <2>2 DEF IntoSlice, IntoFlatBuffer, Pool!from, At
  <2>3. QED
    BY <1>5, <2>1, <2>2
<1>7. /\ IF stage[t] \in {"ask rx", "ask tx"}
         THEN handle'[t] # None /\ requests' = requests + 1
         ELSE requests' = requests
      /\ stage[t] \in {"own rx", "own tx"} => handle'[t] = None
      /\ stage[t] \in {"greet", "delay"} => handle'[t] = handle[t]
      /\ \A u \in Task : u # t => handle'[u] = handle[u]
  <2>1. CASE Resume(t)
    BY <2>1 DEF Resume, poolVars
  <2>2. CASE AskBuffer(t)
    <3>1. requests \in 0..4
      BY <1>2, HandleIsNew
    <3>2. PICK index \in Pool!Index : handle' = [handle EXCEPT ![t] = index]
      BY <2>2 DEF AskBuffer, Pool!poll
    <3>3. stage[t] \in {"ask rx", "ask tx"}
      BY <2>2 DEF AskBuffer
    <3>4. requests' = requests + 1
      <4>1. requests' = IF requests <= BUFFER_COUNT THEN requests + 1 ELSE requests
        BY <2>2 DEF AskBuffer, Pool!poll
      <4>2. QED
        BY <3>1, <4>1, FirmwareAssumption
    <3>5. QED
      BY <1>4, <3>2, <3>3, <3>4
  <2>3. CASE IntoSlice(t) \/ IntoFlatBuffer(t)
    <3>1. /\ handle' = [handle EXCEPT ![t] = None] /\ requests' = requests
          /\ stage[t] \in {"own rx", "own tx"}
      BY <2>3 DEF IntoSlice, IntoFlatBuffer, Pool!from, At
    <3>2. QED
      BY <1>4, <3>1
  <2>4. QED
    BY <1>5, <2>1, <2>2, <2>3
<1>8. /\ stage \in [Task -> {"ask rx", "own rx", "ask tx", "own tx", "greet",
                             "delay"} \cup Looping]
      /\ stage["uart"] # "delay" /\ rx \in [Task -> Pool!Index \cup {None}]
      /\ tx \in [Task -> Pool!Index \cup {None}]
  BY <1>2 DEF Types
<1>9. /\ stage'[t] = Following(t, stage[t])
      /\ \A u \in Task : u # t => stage'[u] = stage[u]
  BY <1>1, <1>8
<1>10. Types'
  <2>1. Following(t, stage[t]) \in {"own rx", "ask tx", "own tx", "greet", "ask rx", "loop"}
            \cup (IF t = "usb" THEN {"delay"} ELSE {})
    BY <1>1, <1>8, FollowingIs DEF Task
  <2>2. /\ stage' \in [Task -> {"ask rx", "own rx", "ask tx", "own tx", "greet",
                               "delay"} \cup Looping]
        /\ stage'["uart"] # "delay"
    BY <1>1, <1>8, <2>1 DEF Looping, Task
  <2>3. /\ rx' \in [Task -> Pool!Index \cup {None}]
        /\ tx' \in [Task -> Pool!Index \cup {None}]
    BY <1>4, <1>6, <1>8
  <2>4. QED
    BY <1>1, <1>2, <2>2, <2>3 DEF Types
<1>11. \A u \in Task : u # t =>
          /\ HasRx(u)' = HasRx(u) /\ HasTx(u)' = HasTx(u) /\ Asked(u)' = Asked(u)
  BY <1>9 DEF HasRx, HasTx, Asked
<1>12. /\ HasRx(t)' <=> HasRx(t) \/ stage[t] = "own rx"
       /\ HasTx(t)' <=> HasTx(t) \/ stage[t] = "own tx"
       /\ stage'[t] \in {"own rx", "own tx"} <=> stage[t] \in {"ask rx", "ask tx"}
       /\ stage[t] \in {"ask rx", "ask tx"} =>
             \E k \in 0..1 : Asked(t) = k /\ Asked(t)' = k + 1
       /\ stage[t] \notin {"ask rx", "ask tx"} => Asked(t)' = Asked(t)
  <2>1. CASE t = "usb"
    <3>1. stage'[t] = Following("usb", stage[t])
      BY <1>9, <2>1
    <3>2. stage[t] \in {"greet", "delay", "ask rx", "ask tx", "own rx", "own tx"}
      BY <1>1, <1>8, <2>1
    <3>3. /\ HasRx(t)' <=> HasRx(t) \/ stage[t] = "own rx"
          /\ HasTx(t)' <=> HasTx(t) \/ stage[t] = "own tx"
      BY <2>1, <3>1, <3>2, FollowingIs DEF HasRx, HasTx, Looping
    <3>4. stage'[t] \in {"own rx", "own tx"} <=> stage[t] \in {"ask rx", "ask tx"}
      BY <3>1, <3>2, FollowingIs
    <3>5. /\ stage[t] \in {"ask rx", "ask tx"} =>
             \E k \in 0..1 : Asked(t) = k /\ Asked(t)' = k + 1
          /\ stage[t] \notin {"ask rx", "ask tx"} => Asked(t)' = Asked(t)
      <4>1. CASE stage[t] = "ask rx"
        <5>1. Asked(t) = 0 /\ Asked(t)' = 1
          BY <2>1, <3>1, <4>1, FollowingIs DEF HasRx, HasTx, Asked, Looping
        <5>2. \E k \in 0..1 : Asked(t) = k /\ Asked(t)' = k + 1
          BY <5>1
        <5>3. QED
          BY <4>1, <5>2
      <4>2. CASE stage[t] = "own rx"
        <5>1. Asked(t) = 1 /\ Asked(t)' = 1
          BY <2>1, <3>1, <4>2, FollowingIs DEF HasRx, HasTx, Asked, Looping
        <5>2. QED
          BY <4>2, <5>1
      <4>3. CASE stage[t] = "ask tx"
        <5>1. Asked(t) = 1 /\ Asked(t)' = 2
          BY <2>1, <3>1, <4>3, FollowingIs DEF HasRx, HasTx, Asked, Looping
        <5>2. \E k \in 0..1 : Asked(t) = k /\ Asked(t)' = k + 1
          BY <5>1
        <5>3. QED
          BY <4>3, <5>2
      <4>4. CASE stage[t] = "own tx"
        <5>1. Asked(t) = 2 /\ Asked(t)' = 2
          BY <2>1, <3>1, <4>4, FollowingIs DEF HasRx, HasTx, Asked, Looping
        <5>2. QED
          BY <4>4, <5>1
      <4>5. CASE stage[t] = "greet"
        <5>1. Asked(t) = 2 /\ Asked(t)' = 2
          BY <2>1, <3>1, <4>5, FollowingIs DEF HasRx, HasTx, Asked, Looping
        <5>2. QED
          BY <4>5, <5>1
      <4>6. CASE stage[t] = "delay"
        <5>1. Asked(t) = 2 /\ Asked(t)' = 2
          BY <2>1, <3>1, <4>6, FollowingIs DEF HasRx, HasTx, Asked, Looping
        <5>2. QED
          BY <4>6, <5>1
      <4>7. QED
        BY <3>2, <4>1, <4>2, <4>3, <4>4, <4>5, <4>6
    <3>6. QED
      BY <3>3, <3>4, <3>5
  <2>2. CASE t = "uart"
    <3>1. stage'[t] = Following("uart", stage[t])
      BY <1>9, <2>2
    <3>2. stage[t] \in {"greet", "ask rx", "ask tx", "own rx", "own tx"}
      BY <1>1, <1>8, <2>2
    <3>3. /\ HasRx(t)' <=> HasRx(t) \/ stage[t] = "own rx"
          /\ HasTx(t)' <=> HasTx(t) \/ stage[t] = "own tx"
      BY <2>2, <3>1, <3>2, FollowingIs DEF HasRx, HasTx, Looping
    <3>4. stage'[t] \in {"own rx", "own tx"} <=> stage[t] \in {"ask rx", "ask tx"}
      BY <3>1, <3>2, FollowingIs
    <3>5. /\ stage[t] \in {"ask rx", "ask tx"} =>
             \E k \in 0..1 : Asked(t) = k /\ Asked(t)' = k + 1
          /\ stage[t] \notin {"ask rx", "ask tx"} => Asked(t)' = Asked(t)
      <4>1. CASE stage[t] = "greet"
        <5>1. Asked(t) = 0 /\ Asked(t)' = 0
          BY <2>2, <3>1, <4>1, FollowingIs DEF HasRx, HasTx, Asked, Looping
        <5>2. QED
          BY <4>1, <5>1
      <4>2. CASE stage[t] = "ask rx"
        <5>1. Asked(t) = 0 /\ Asked(t)' = 1
          BY <2>2, <3>1, <4>2, FollowingIs DEF HasRx, HasTx, Asked, Looping
        <5>2. \E k \in 0..1 : Asked(t) = k /\ Asked(t)' = k + 1
          BY <5>1
        <5>3. QED
          BY <4>2, <5>2
      <4>3. CASE stage[t] = "own rx"
        <5>1. Asked(t) = 1 /\ Asked(t)' = 1
          BY <2>2, <3>1, <4>3, FollowingIs DEF HasRx, HasTx, Asked, Looping
        <5>2. QED
          BY <4>3, <5>1
      <4>4. CASE stage[t] = "ask tx"
        <5>1. Asked(t) = 1 /\ Asked(t)' = 2
          BY <2>2, <3>1, <4>4, FollowingIs DEF HasRx, HasTx, Asked, Looping
        <5>2. \E k \in 0..1 : Asked(t) = k /\ Asked(t)' = k + 1
          BY <5>1
        <5>3. QED
          BY <4>4, <5>2
      <4>5. CASE stage[t] = "own tx"
        <5>1. Asked(t) = 2 /\ Asked(t)' = 2
          BY <2>2, <3>1, <4>5, FollowingIs DEF HasRx, HasTx, Asked, Looping
        <5>2. QED
          BY <4>5, <5>1
      <4>6. QED
        BY <3>2, <4>1, <4>2, <4>3, <4>4, <4>5
    <3>6. QED
      BY <3>3, <3>4, <3>5
  <2>3. QED
    BY <2>1, <2>2 DEF Task
<1>13. Stations'
  <2>1. requests' = Asked("usb")' + Asked("uart")'
    <3>1. requests = Asked("usb") + Asked("uart")
      BY <1>2 DEF Stations
    <3>2. Asked("usb") \in Nat /\ Asked("uart") \in Nat
      BY DEF Asked
    <3>3. CASE stage[t] \in {"ask rx", "ask tx"}
      <4>1. PICK k \in 0..1 : Asked(t) = k /\ Asked(t)' = k + 1
        BY <1>12, <3>3
      <4>2. requests' = requests + 1
        BY <1>7, <3>3
      <4>3. QED
        BY <1>11, <3>1, <3>2, <4>1, <4>2 DEF Task
    <3>4. CASE stage[t] \notin {"ask rx", "ask tx"}
      <4>1. requests' = requests /\ Asked(t)' = Asked(t)
        BY <1>7, <1>12, <3>2, <3>4 DEF Task
      <4>2. QED
        BY <1>11, <3>1, <3>2, <4>1 DEF Task
    <3>5. QED
      BY <3>3, <3>4
  <2>2. ASSUME NEW u \in Task
        PROVE  /\ handle'[u] # None <=> stage'[u] \in {"own rx", "own tx"}
               /\ rx'[u] # None <=> HasRx(u)'
               /\ tx'[u] # None <=> HasTx(u)'
    <3>1. /\ handle[u] # None <=> stage[u] \in {"own rx", "own tx"}
          /\ rx[u] # None <=> HasRx(u)
          /\ tx[u] # None <=> HasTx(u)
      BY <1>2 DEF Stations
    <3>2. CASE u = t
      BY <1>1, <1>6, <1>7, <1>8, <1>12, <3>1, <3>2
    <3>3. CASE u # t
      BY <1>6, <1>7, <1>8, <1>9, <1>11, <3>1, <3>3
    <3>4. QED
      BY <3>2, <3>3
  <2>3. QED
    BY <2>1, <2>2 DEF Stations
<1>14. handle[t] \notin slices
  BY <1>2, HandleIsNew
<1>15. Apart'
  <2>1. /\ \A u \in Task : rx[u] \in slices \cup {None} /\ tx[u] \in slices \cup {None}
        /\ \A u \in Task : rx[u] # None => rx[u] # tx[u]
        /\ {rx["usb"], tx["usb"]} \cap {rx["uart"], tx["uart"]} \subseteq {None}
    BY <1>2 DEF Apart
  <2>2. handle[t] # None <=> stage[t] \in {"own rx", "own tx"}
    BY <1>2 DEF Stations
  <2>3. stage[t] = "own rx" => tx[t] = None
    BY <1>2 DEF Stations, HasTx, Looping
  <2>4. CASE stage[t] = "own rx"
    <3>1. rx' = [rx EXCEPT ![t] = handle[t]] /\ tx' = tx /\ slices' = slices \cup {handle[t]}
      BY <1>6, <2>4
    <3>2. QED
      BY <1>8, <1>14, <2>1, <2>2, <2>3, <2>4, <3>1 DEF Apart, Task
  <2>5. CASE stage[t] = "own tx"
    <3>1. tx' = [tx EXCEPT ![t] = handle[t]] /\ rx' = rx /\ slices' = slices \cup {handle[t]}
      BY <1>6, <2>5
    <3>2. QED
      BY <1>8, <1>14, <2>1, <2>2, <2>5, <3>1 DEF Apart, Task
  <2>6. CASE stage[t] \notin {"own rx", "own tx"}
    BY <1>2, <1>6, <2>6 DEF Apart
  <2>7. QED
    BY <2>4, <2>5, <2>6
<1>16. ASSUME NEW u \in Task
       PROVE  Read(u)' /\ Composing(u)' /\ Sent(u)'
  <2>1. CASE u # t
    <3>1. Same(u) /\ UNCHANGED stage[u]
      BY <1>1, <1>6, <1>8, <1>9, <2>1 DEF Same
    <3>2. QED
      BY <1>2, <3>1, Frame
  <2>2. CASE u = t
    <3>1. Read(t) /\ Sent(t) /\ stage[t] \notin Looping
      BY <1>1, <1>2 DEF Looping
    <3>2. ~ok[t] /\ len[t] = 0 /\ sent[t] = <<>>
      BY <1>1, <3>1 DEF Read, Sent, HasTx, Looping
    <3>3. UNCHANGED <<ok[t], len[t], sent[t]>>
      BY <1>1
    <3>4. stage'[t] \notin {"read", "compose", "write"}
      BY <1>1, <1>8, <1>9, FollowingIs DEF Task
    <3>5. Carries(t, 0)' /\ Expected(t)' = 0
      <4>1. Carries(t, 0)
        BY <3>2, NothingSent
      <4>2. QED
        BY <1>1, <3>2, <3>3, <4>1 DEF Carries, Expected
    <3>6. Read(t)' /\ Composing(t)'
      BY <3>2, <3>3, <3>4 DEF Read, Composing
    <3>7. Sent(t)'
      <4>1. Len(sent'[t]) = 0 /\ len'[t] = 0 /\ sent'[t] = <<>>
        BY <3>2, <3>3
      <4>2. QED
        BY <3>5, <4>1 DEF Sent
    <3>8. QED
      BY <2>2, <3>6, <3>7
  <2>3. QED
    BY <2>1, <2>2
<1>17. QED
  BY <1>10, <1>13, <1>15, <1>16 DEF Inv

-----------------------------------------------------------------------------
(* The loop.                                                               *)

\* A step of the loop writes to the task's own buffers only.
OwnOnly(t) ==
    /\ \A b \in Pool!Index : b \notin {rx[t], tx[t]} => mem'[b] = mem[b]
    /\ \A u \in Task : u # t =>
          UNCHANGED <<len[u], round[u], filled[u], ok[u], written[u], sent[u]>>

\* The buffers of the other task are none of the two.
LEMMA OthersKept ==
    ASSUME Types, Apart, NEW t \in Task,
           \A b \in Pool!Index : b \notin {rx[t], tx[t]} => mem'[b] = mem[b],
           NEW u \in Task, u # t
    PROVE  /\ tx[u] # None => mem'[tx[u]] = mem[tx[u]]
           /\ rx[u] # None => mem'[rx[u]] = mem[rx[u]]
<1>1. {rx[u], tx[u]} \cap {rx[t], tx[t]} \subseteq {None}
  <2>1. {rx["usb"], tx["usb"]} \cap {rx["uart"], tx["uart"]} \subseteq {None}
    BY DEF Apart
  <2>2. CASE t = "usb"
    BY <2>1, <2>2 DEF Task
  <2>3. CASE t = "uart"
    BY <2>1, <2>3 DEF Task
  <2>4. QED
    BY <2>2, <2>3 DEF Task
<1>2. /\ rx[u] # None => rx[u] \notin {rx[t], tx[t]}
      /\ tx[u] # None => tx[u] \notin {rx[t], tx[t]}
  BY <1>1
<1>3. /\ rx[u] \in Pool!Index \cup {None}
      /\ tx[u] \in Pool!Index \cup {None}
  BY DEF Types
<1>4. QED
  BY <1>2, <1>3

LEMMA LoopKeeps ==
    ASSUME Inv, Types', NEW t \in Task, NEW s \in Looping,
           stage[t] \in Looping, stage' = [stage EXCEPT ![t] = s],
           UNCHANGED <<poolVars, bufferVars>>, OwnOnly(t),
           Read(t)', Composing(t)', Sent(t)'
    PROVE  Inv'
<1>1. /\ Types /\ Stations /\ Apart
      /\ \A u \in Task : Read(u) /\ Composing(u) /\ Sent(u)
  BY DEF Inv
<1>2. UNCHANGED <<handle, slices, requests, rx, tx>>
  BY DEF poolVars, bufferVars
<1>3. stage'[t] = s /\ \A u \in Task : u # t => stage'[u] = stage[u]
  BY <1>1 DEF Types
<1>4. \A u \in Task : (HasRx(u)' <=> HasRx(u)) /\ (HasTx(u)' <=> HasTx(u))
  <2>1. \A u \in Task : u # t => (HasRx(u)' <=> HasRx(u)) /\ (HasTx(u)' <=> HasTx(u))
    BY <1>3 DEF HasRx, HasTx
  <2>2. HasRx(t) /\ HasTx(t) /\ HasRx(t)' /\ HasTx(t)'
    BY <1>3 DEF HasRx, HasTx
  <2>3. QED
    BY <2>1, <2>2
<1>5. \A u \in Task : stage'[u] \in {"own rx", "own tx"} <=> stage[u] \in {"own rx", "own tx"}
  BY <1>3 DEF Looping
<1>6. \A u \in Task : stage'[u] = "own rx" <=> stage[u] = "own rx"
  BY <1>3 DEF Looping
<1>7. \A u \in Task : stage'[u] = "own tx" <=> stage[u] = "own tx"
  BY <1>3 DEF Looping
<1>8. Stations'
  <2>1. ASSUME NEW u \in Task
        PROVE  Asked(u)' = Asked(u)
    BY <1>4, <1>6, <1>7 DEF Asked
  <2>2. requests' = Asked("usb")' + Asked("uart")'
    BY <1>1, <1>2, <2>1 DEF Stations, Task
  <2>3. \A u \in Task :
          /\ handle'[u] # None <=> stage'[u] \in {"own rx", "own tx"}
          /\ rx'[u] # None <=> HasRx(u)'
          /\ tx'[u] # None <=> HasTx(u)'
    BY <1>1, <1>2, <1>4, <1>5 DEF Stations
  <2>4. QED
    BY <2>2, <2>3 DEF Stations
<1>9. Apart'
  BY <1>1, <1>2 DEF Apart
<1>10. ASSUME NEW u \in Task
       PROVE  Read(u)' /\ Composing(u)' /\ Sent(u)'
  <2>1. CASE u # t
    <3>1. /\ tx[u] # None => mem'[tx[u]] = mem[tx[u]]
          /\ rx[u] # None => mem'[rx[u]] = mem[rx[u]]
      BY <1>1, <2>1, OthersKept DEF OwnOnly
    <3>2. Same(u) /\ UNCHANGED stage[u]
      BY <1>2, <1>3, <2>1, <3>1 DEF Same, OwnOnly
    <3>3. QED
      BY <1>1, <3>2, Frame
  <2>2. QED
    BY <2>1
<1>11. QED
  BY <1>8, <1>9, <1>10 DEF Inv

\* A task in the loop has two buffers of the pool.
LEMMA TwoBuffers ==
    ASSUME Types, Stations, Apart, NEW t \in Task, stage[t] \in Looping
    PROVE  rx[t] \in Pool!Index /\ tx[t] \in Pool!Index /\ rx[t] # tx[t]
<1>1. rx[t] # None /\ tx[t] # None
  BY DEF Stations, HasRx, HasTx
<1>2. QED
  BY <1>1 DEF Types, Apart

LEMMA StartRoundKeeps ==
    ASSUME Inv, NEW t \in Task, StartRound(t)
    PROVE  Inv'
<1>1. /\ Types /\ Stations /\ Apart
      /\ \A u \in Task : Read(u) /\ Composing(u) /\ Sent(u)
  BY DEF Inv
<1>2. stage[t] = "loop" /\ stage[t] \in Looping /\ "read" \in Looping
  BY DEF StartRound, At, Looping
<1>3. rx[t] \in Pool!Index /\ tx[t] \in Pool!Index /\ rx[t] # tx[t]
  BY <1>1, <1>2, TwoBuffers
<1>4. /\ len' = [len EXCEPT ![t] = 0]
      /\ written' = [written EXCEPT ![t] = 0]
      /\ sent' = [sent EXCEPT ![t] = <<>>]
      /\ round' = [round EXCEPT ![t] = 1 - round[t]]
      /\ filled' = [filled EXCEPT ![t] = 0]
      /\ ok' = [ok EXCEPT ![t] = FALSE]
      /\ stage' = [stage EXCEPT ![t] = "read"]
      /\ UNCHANGED <<running, mem, poolVars, bufferVars>>
  BY DEF StartRound, Goto
<1>5. /\ len'[t] = 0 /\ written'[t] = 0 /\ sent'[t] = <<>> /\ filled'[t] = 0
      /\ ~ok'[t] /\ stage'[t] = "read"
  BY <1>1, <1>4 DEF Types
<1>6. Types'
  <2>2. mem' \in [Pool!Index -> [Place -> Cell]]
    BY <1>1, <1>4 DEF Types
  <2>3. round[t] \in {0, 1} /\ Size \in Nat
    BY <1>1, FirmwareAssumption DEF Types
  <2>4. /\ len' \in [Task -> 0..Size] /\ filled' \in [Task -> 0..Size]
        /\ round' \in [Task -> {0, 1}] /\ written' \in [Task -> 0..5]
        /\ ok' \in [Task -> BOOLEAN] /\ DOMAIN sent' = Task
    <3>1. /\ len \in [Task -> 0..Size] /\ filled \in [Task -> 0..Size]
          /\ round \in [Task -> {0, 1}] /\ written \in [Task -> 0..5]
          /\ ok \in [Task -> BOOLEAN] /\ DOMAIN sent = Task
      BY <1>1 DEF Types
    <3>2. 1 - round[t] \in {0, 1} /\ 0 \in 0..Size /\ 0 \in 0..5
      BY <2>3
    <3>3. QED
      BY <1>4, <3>1, <3>2
  <2>5. /\ stage' \in [Task -> {"ask rx", "own rx", "ask tx", "own tx", "greet",
                               "delay"} \cup Looping]
        /\ stage'["uart"] # "delay"
    <3>1. /\ stage \in [Task -> {"ask rx", "own rx", "ask tx", "own tx", "greet",
                                 "delay"} \cup Looping]
          /\ stage["uart"] # "delay" /\ "uart" \in Task
      BY <1>1 DEF Types, Task
    <3>2. QED
      BY <1>2, <1>4, <3>1
  <2>6. UNCHANGED <<running, rx, tx>>
    BY <1>4 DEF bufferVars
  <2>7. QED
    BY <1>1, <2>2, <2>4, <2>5, <2>6 DEF Types
<1>7. OwnOnly(t)
  BY <1>1, <1>3, <1>4 DEF OwnOnly, Types
<1>8. Read(t)' /\ Composing(t)' /\ Sent(t)'
  <2>1. Read(t)'
    BY <1>5 DEF Read, HasTx, Looping
  <2>2. Composing(t)' /\ Sent(t)'
    BY <1>5 DEF Composing, Sent
  <2>3. QED
    BY <2>1, <2>2
<1>9. QED
  BY <1>2, <1>4, <1>6, <1>7, <1>8, LoopKeeps

\* What is read goes behind what was read before.
LEMMA ReceiveKeeps ==
    ASSUME Inv, NEW t \in Task, stage[t] = "read",
           NEW n \in 0..(Size - filled[t]), Receive(t, n),
           NEW s \in {"read", "compose"}, stage' = [stage EXCEPT ![t] = s],
           NEW good \in BOOLEAN, ok' = [ok EXCEPT ![t] = good],
           good => filled[t] + n > 0,
           UNCHANGED <<running, poolVars, bufferVars, round, reportVars>>
    PROVE  Inv'
<1>1. /\ Types /\ Stations /\ Apart
      /\ \A u \in Task : Read(u) /\ Composing(u) /\ Sent(u)
  BY DEF Inv
<1>2. stage[t] \in Looping /\ s \in Looping
  BY DEF Looping
<1>3. rx[t] \in Pool!Index /\ tx[t] \in Pool!Index /\ rx[t] # tx[t]
  BY <1>1, <1>2, TwoBuffers
<1>4. /\ UNCHANGED <<running, rx, tx, round, len, written, sent>>
      /\ UNCHANGED <<poolVars, bufferVars>>
  BY DEF bufferVars, reportVars
<1>5. /\ filled \in [Task -> 0..Size] /\ ok \in [Task -> BOOLEAN]
      /\ round \in [Task -> {0, 1}] /\ len \in [Task -> 0..Size]
      /\ mem \in [Pool!Index -> [Place -> Cell]]
      /\ stage \in [Task -> {"ask rx", "own rx", "ask tx", "own tx", "greet",
                             "delay"} \cup Looping]
      /\ stage["uart"] # "delay" /\ Size \in Nat
  BY <1>1, FirmwareAssumption DEF Types
<1> DEFINE new == [p \in Place |-> IF p \in (filled[t] + 1)..(filled[t] + n)
                                   THEN Byte(t, round[t], p) ELSE mem[rx[t]][p]]
<1>6. /\ filled' = [filled EXCEPT ![t] = filled[t] + n]
      /\ mem' = [mem EXCEPT ![rx[t]] = new]
  BY DEF Receive, new
<1> HIDE DEF new
<1>0. filled[t] \in 0..Size /\ round[t] \in {0, 1} /\ Size \in Nat
  BY <1>5
<1>7. \A p \in Place : Byte(t, round[t], p) \in Cell
  <2>1. t \in Origin /\ round[t] \in Nat /\ Place \subseteq Nat
    BY <1>0 DEF Origin, Place
  <2>2. QED
    BY <2>1, ByteIs
<1>8. new \in [Place -> Cell]
  <2>1. mem[rx[t]] \in [Place -> Cell]
    BY <1>3, <1>5
  <2>2. QED
    BY <1>7, <2>1 DEF new
<1>9. /\ filled'[t] = filled[t] + n /\ filled[t] + n \in 0..Size
      /\ mem'[rx[t]] = new /\ mem'[tx[t]] = mem[tx[t]]
      /\ ok'[t] = good /\ stage'[t] = s
  <2>1. filled[t] + n \in 0..Size
    BY <1>0
  <2>2. QED
    BY <2>1, <1>3, <1>5, <1>6
<1>10. Types'
  <2>1. mem' \in [Pool!Index -> [Place -> Cell]]
    BY <1>3, <1>5, <1>6, <1>8
  <2>2. filled' \in [Task -> 0..Size] /\ ok' \in [Task -> BOOLEAN]
    BY <1>5, <1>6, <1>9
  <2>3. /\ stage' \in [Task -> {"ask rx", "own rx", "ask tx", "own tx", "greet",
                               "delay"} \cup Looping]
        /\ stage'["uart"] # "delay"
    <3>1. "uart" \in Task
      BY DEF Task
    <3>2. QED
      BY <1>2, <1>5, <3>1
  <2>4. QED
    BY <1>1, <1>4, <2>1, <2>2, <2>3 DEF Types
<1>11. OwnOnly(t)
  <2>1. \A b \in Pool!Index : b \notin {rx[t], tx[t]} => mem'[b] = mem[b]
    BY <1>5, <1>6
  <2>2. QED
    BY <1>4, <1>5, <1>6, <2>1 DEF OwnOnly
<1>12. Read(t)'
  <2>1. ASSUME NEW p \in 1..filled'[t]
        PROVE  mem'[rx'[t]][p] = Byte(t, round'[t], p)
    <3>1. p \in Place /\ filled[t] \in 0..Size
      <4>1. p \in 1..(filled[t] + n) /\ filled[t] + n \in 0..Size
        BY <1>9
      <4>2. QED
        BY <1>0, <4>1 DEF Place
    <3>2. p \in 1..filled[t] => mem[rx[t]][p] = Byte(t, round[t], p)
      BY <1>1 DEF Read
    <3>3. p \in 1..filled[t] \/ p \in (filled[t] + 1)..(filled[t] + n)
      BY <3>1, <1>9
    <3>4. new[p] = Byte(t, round[t], p)
      BY <3>1, <3>2, <3>3 DEF new
    <3>5. QED
      BY <1>4, <1>9, <3>4
  <2>2. ok'[t] => filled'[t] > 0
    BY <1>9
  <2>3. HasTx(t)' /\ stage'[t] \notin {"greet", "delay"}
    BY <1>2, <1>9 DEF HasTx, Looping
  <2>4. QED
    BY <2>1, <2>2, <2>3 DEF Read
<1>13. written'[t] = 0 /\ len'[t] = 0 /\ sent'[t] = <<>>
  BY <1>1, <1>4 DEF Composing, Sent
<1>14. Composing(t)'
  <2>1. \A from : Stands(t, from, 0)' <=> {} = (from + 1)..(from + 0)
    BY <1>13 DEF Stands
  <2>2. Stands(t, 0, 0)'
    BY <2>1
  <2>3. 0 <= Lead(t) /\ 0 \in 0..len'[t] /\ 0 <= Ahead(t)
    BY <1>13, FirmwareAssumption DEF Lead, Ahead
  <2>4. ~ok'[t] => Expected(t)' = 0
    BY DEF Expected
  <2>5. QED
    BY <1>9, <1>13, <2>2, <2>3, <2>4 DEF Composing
<1>15. Sent(t)'
  BY <1>9, <1>13 DEF Sent
<1>16. QED
  BY <1>2, <1>4, <1>10, <1>11, <1>12, <1>14, <1>15, LoopKeeps

LEMMA ReadKeeps ==
    ASSUME Inv,
           \/ \E t \in Task : \E n \in 0..(Size - filled[t]), success \in BOOLEAN :
                 ReadEnds(t, n, success)
           \/ \E n \in 1..(Size - filled["uart"]) : ReadOn(n)
    PROVE  Inv'
<1>1. ASSUME NEW t \in Task, NEW n \in 0..(Size - filled[t]), NEW success \in BOOLEAN,
             ReadEnds(t, n, success)
      PROVE  Inv'
  <2>1. /\ stage[t] = "read" /\ Receive(t, n)
        /\ stage' = [stage EXCEPT ![t] = "compose"]
        /\ ok' = [ok EXCEPT ![t] = success]
        /\ UNCHANGED <<running, poolVars, bufferVars, round, reportVars>>
    BY <1>1 DEF ReadEnds, At, Goto
  <2>2. filled[t] \in 0..Size /\ Size \in Nat
    BY FirmwareAssumption DEF Inv, Types
  <2>3. success => filled[t] + n > 0
    BY <1>1, <2>2 DEF ReadEnds
  <2>4. QED
    BY <2>1, <2>3, ReceiveKeeps
<1>2. ASSUME NEW n \in 1..(Size - filled["uart"]), ReadOn(n)
      PROVE  Inv'
  <2>1. /\ stage["uart"] = "read" /\ Receive("uart", n)
        /\ UNCHANGED <<running, stage, poolVars, bufferVars, round, ok, reportVars>>
    BY <1>2 DEF ReadOn, At
  <2>2. /\ stage \in [Task -> {"ask rx", "own rx", "ask tx", "own tx", "greet",
                               "delay"} \cup Looping]
        /\ ok \in [Task -> BOOLEAN] /\ filled["uart"] \in 0..Size /\ "uart" \in Task
    BY DEF Inv, Types, Task
  <2>3. /\ stage' = [stage EXCEPT !["uart"] = "read"]
        /\ ok' = [ok EXCEPT !["uart"] = ok["uart"]]
        /\ ok["uart"] \in BOOLEAN
    BY <2>1, <2>2
  <2>4. n \in 0..(Size - filled["uart"]) /\ filled["uart"] + n > 0
    <3>1. filled["uart"] \in 0..Size /\ Size \in Nat
      BY <2>2, FirmwareAssumption
    <3>2. QED
      BY <3>1
  <2>5. QED
    BY <2>1, <2>2, <2>3, <2>4, ReceiveKeeps
<1>3. QED
  BY <1>1, <1>2

-----------------------------------------------------------------------------
(* The pieces of a report.                                                 *)

LEMMA TextIs ==
    ASSUME NEW n \in Nat
    PROVE  Len(Text(n)) = n /\ \A i \in 1..n : Text(n)[i] = Byte("text", 0, 0)
BY DEF Text

LEMMA NumberIs ==
    ASSUME NEW n \in Nat
    PROVE  Len(Number(n)) = 1 /\ Number(n)[1] = Byte("count", 0, n)
BY DEF Number

LEMMA FrontIs ==
    ASSUME NEW m \in [Place -> Cell], NEW n \in 0..Size
    PROVE  /\ SubSeq(m, 1, n) \in Seq(Cell) /\ Len(SubSeq(m, 1, n)) = n
           /\ \A i \in 1..n : SubSeq(m, 1, n)[i] = m[i]
<1>1. Size \in Nat
  BY FirmwareAssumption
<1>2. \A i \in 1..n : m[i] \in Cell
  BY <1>1 DEF Place
<1>3. n \in Int /\ 1 \in Int
  BY <1>1
<1>4. /\ SubSeq(m, 1, n) \in Seq(Cell)
      /\ Len(SubSeq(m, 1, n)) = IF 1 <= n THEN n - 1 + 1 ELSE 0
      /\ \A i \in 1..(n - 1 + 1) : SubSeq(m, 1, n)[i] = m[1 + i - 1]
  BY <1>2, <1>3, SubSeqProperties
<1>5. Len(SubSeq(m, 1, n)) = n
  BY <1>1, <1>4
<1>6. ASSUME NEW i \in 1..n
      PROVE  SubSeq(m, 1, n)[i] = m[i]
  <2>1. i \in 1..(n - 1 + 1) /\ 1 + i - 1 = i
    BY <1>3
  <2>2. QED
    BY <1>4, <2>1
<1>7. QED
  BY <1>4, <1>5, <1>6

LEMMA SliceIs ==
    ASSUME NEW t \in Task, mem[rx[t]] \in [Place -> Cell], NEW n \in 0..Size
    PROVE  Len(Slice(t, n)) = n /\ \A i \in 1..n : Slice(t, n)[i] = mem[rx[t]][i]
BY FrontIs DEF Slice

Lines(t) == <<Slice(t, PayloadLen(t)), Text(BytesLen), Number(filled[t]), Text(EolLen)>>

\* A report is empty, an error or the four pieces of a line behind its lead.
LEMMA ReportIs ==
    ASSUME NEW t \in Task, ok[t] \in BOOLEAN
    PROVE  /\ ok[t] => /\ Len(Report(t)) = Lead(t) + 4
                       /\ \A i \in 1..4 : Report(t)[Lead(t) + i] = Lines(t)[i]
                       /\ t = "uart" => Report(t)[1] = Text(PrefixLen)
           /\ ~ok[t] => /\ Len(Report(t)) \in 0..1
                        /\ Len(Report(t)) = 1 => Report(t)[1] = Text(ErrorLen)
<1>1. CASE ~ok[t]
  BY <1>1 DEF Report
<1>2. CASE ok[t] /\ t = "usb"
  <2>1. Report(t) = Lines(t) /\ Lead(t) = 0
    BY <1>2 DEF Report, Lines, Lead
  <2>2. Len(Lines(t)) = 4
    BY DEF Lines
  <2>3. \A i \in 1..4 : 0 + i = i
    OBVIOUS
  <2>4. Len(Report(t)) = Lead(t) + 4
    BY <2>1, <2>2
  <2>5. \A i \in 1..4 : Report(t)[Lead(t) + i] = Lines(t)[i]
    BY <2>1, <2>3
  <2>6. QED
    BY <1>2, <2>4, <2>5
<1>3. CASE ok[t] /\ t = "uart"
  <2>1. Report(t) = <<Text(PrefixLen)>> \o Lines(t) /\ Lead(t) = 1
    BY <1>3 DEF Report, Lines, Lead
  <2> DEFINE S == {Text(PrefixLen), Slice(t, PayloadLen(t)), Text(BytesLen),
                   Number(filled[t]), Text(EolLen)}
  <2>2. Lines(t) \in Seq(S) /\ Len(Lines(t)) = 4
    BY DEF Lines
  <2>3. <<Text(PrefixLen)>> \in Seq(S) /\ Len(<<Text(PrefixLen)>>) = 1
    OBVIOUS
  <2> DEFINE a == <<Text(PrefixLen)>>
             b == Lines(t)
             r == a \o b
  <2> HIDE DEF S, a, b
  <2>31. /\ a \in Seq(S) /\ Len(a) = 1 /\ a[1] = Text(PrefixLen)
         /\ b \in Seq(S) /\ Len(b) = 4
    BY <2>2, <2>3 DEF a, b
  <2>32. /\ Len(r) = Len(a) + Len(b)
         /\ \A i \in 1..(Len(a) + Len(b)) :
               r[i] = IF i <= Len(a) THEN a[i] ELSE b[i - Len(a)]
    BY <2>31, ConcatProperties
  <2> HIDE DEF r
  <2>4. Len(r) = 5 /\ \A i \in 1..5 : r[i] = IF i <= 1 THEN a[i] ELSE b[i - 1]
    BY <2>31, <2>32
  <2>5. r[1] = Text(PrefixLen)
    BY <2>31, <2>4
  <2>6. ASSUME NEW i \in 1..4
        PROVE  r[1 + i] = Lines(t)[i]
    <3>1. 1 + i \in 1..5 /\ ~(1 + i <= 1) /\ (1 + i) - 1 = i
      OBVIOUS
    <3>2. QED
      BY <2>4, <3>1 DEF b
  <2>7. Report(t) = r
    BY <2>1, Zenon DEF r, a, b
  <2>8. Lead(t) = 1
    BY <2>1, Zenon
  <2>9. Len(Report(t)) = Lead(t) + 4
    <3>1. Len(Report(t)) = 5
      BY <2>4, <2>7
    <3>2. QED
      BY <2>8, <3>1
  <2>10. QED
    BY <1>3, <2>5, <2>6, <2>7, <2>8, <2>9
<1>4. QED
  BY <1>1, <1>2, <1>3 DEF Task

\* The payload piece is the read as it is in rx_buffer; no other piece has a
\* payload byte, and the one before it has the length of the lead.
LEMMA PieceIs ==
    ASSUME Types, Stations, Apart, NEW t \in Task, Read(t), stage[t] = "compose",
           written[t] < Len(Report(t)), NEW src, src = Report(t)[written[t] + 1]
    PROVE  /\ Len(src) \in Nat /\ Expected(t) \in 0..Size
           /\ IF ok[t] /\ written[t] = Lead(t)
              THEN /\ Len(src) = Expected(t)
                   /\ \A i \in 1..Len(src) :
                         /\ src[i] = Byte(t, round[t], i)
                         /\ src[i] \in Cell /\ IsPayload(src[i])
              ELSE \A i \in 1..Len(src) : src[i] \in Cell /\ ~IsPayload(src[i])
           /\ ok[t] /\ written[t] < Lead(t) => Len(src) = Ahead(t)
<1>1. /\ written[t] \in 0..5 /\ filled[t] \in 0..Size /\ ok[t] \in BOOLEAN
      /\ round[t] \in Nat
  <2>1. /\ written[t] \in 0..5 /\ filled[t] \in 0..Size /\ ok[t] \in BOOLEAN
        /\ round[t] \in {0, 1}
    BY DEF Types
  <2>2. QED
    BY <2>1
<1>2. /\ {Size, PrefixLen, ErrorLen, BytesLen, EolLen} \subseteq Nat
      /\ Size \in Nat
  BY FirmwareAssumption
<1>3. mem[rx[t]] \in [Place -> Cell]
  <2>1. rx[t] \in Pool!Index
    BY TwoBuffers DEF Looping
  <2>2. QED
    BY <2>1 DEF Types
<1>4. Byte("text", 0, 0) \in Cell /\ ~IsPayload(Byte("text", 0, 0))
  BY ByteIs DEF Origin
<1>5. ASSUME NEW n \in Nat
      PROVE  Byte("count", 0, n) \in Cell /\ ~IsPayload(Byte("count", 0, n))
  BY ByteIs DEF Origin
<1>6. ASSUME NEW n \in Nat
      PROVE  Byte(t, round[t], n) \in Cell /\ IsPayload(Byte(t, round[t], n))
  BY <1>1, ByteIs DEF Origin, Task
<1>7. ASSUME NEW n \in Nat
      PROVE  /\ Len(Text(n)) = n
             /\ \A i \in 1..Len(Text(n)) : Text(n)[i] \in Cell /\ ~IsPayload(Text(n)[i])
  BY <1>4, TextIs
<1>8. /\ Len(Number(filled[t])) = 1
      /\ \A i \in 1..Len(Number(filled[t])) :
            Number(filled[t])[i] \in Cell /\ ~IsPayload(Number(filled[t])[i])
  <2>1. filled[t] \in Nat
    BY <1>1, <1>2
  <2>2. Len(Number(filled[t])) = 1 /\ Number(filled[t])[1] = Byte("count", 0, filled[t])
    BY <2>1, NumberIs
  <2>3. Byte("count", 0, filled[t]) \in Cell /\ ~IsPayload(Byte("count", 0, filled[t]))
    BY <2>1, <1>5
  <2>4. QED
    BY <2>2, <2>3
<1>9. ok[t] => Expected(t) = PayloadLen(t) /\ PayloadLen(t) \in 0..filled[t]
  BY <1>1 DEF Read, Expected, PayloadLen
<1>10. Expected(t) \in 0..Size
  BY <1>1, <1>2, <1>9 DEF Expected
<1>11. CASE ~ok[t]
  <2>1. written[t] = 0 /\ src = Text(ErrorLen)
    BY <1>1, <1>11, ReportIs
  <2>2. QED
    BY <1>2, <1>7, <1>10, <1>11, <2>1
<1>12. CASE ok[t] /\ written[t] = Lead(t)
  <2>1. Lead(t) \in 0..1
    BY DEF Lead
  <2>2. src = Slice(t, PayloadLen(t))
    <3>1. src = Report(t)[Lead(t) + 1]
      BY <1>12
    <3>2. Report(t)[Lead(t) + 1] = Lines(t)[1]
      <4>1. \A i \in 1..4 : Report(t)[Lead(t) + i] = Lines(t)[i]
        BY <1>1, <1>12, ReportIs
      <4>2. 1 \in 1..4
        OBVIOUS
      <4>3. QED
        BY ONLY <4>1, <4>2
    <3>3. QED
      BY <3>1, <3>2 DEF Lines
  <2>3. PayloadLen(t) \in 0..Size /\ Expected(t) = PayloadLen(t)
    <3>1. PayloadLen(t) \in 0..filled[t] /\ Expected(t) = PayloadLen(t)
      BY <1>9, <1>12
    <3>2. QED
      BY <1>1, <1>2, <3>1
  <2>4. Len(src) = Expected(t) /\ \A i \in 1..Len(src) : src[i] = mem[rx[t]][i]
    BY <1>3, <2>2, <2>3, SliceIs
  <2>5. ASSUME NEW i \in 1..Len(src)
        PROVE  src[i] = Byte(t, round[t], i) /\ i \in Nat
    <3>1. i \in 1..filled[t]
      BY <1>1, <1>9, <1>12, <2>4
    <3>2. QED
      BY <2>4, <3>1 DEF Read
  <2>6. \A i \in 1..Len(src) : src[i] \in Cell /\ IsPayload(src[i])
    BY <1>6, <2>5
  <2>7. QED
    <3>1. ~(written[t] < Lead(t)) /\ Len(src) \in Nat
      BY <1>2, <1>10, <1>12, <2>1, <2>4
    <3>2. QED
      BY <1>10, <1>12, <2>4, <2>5, <2>6, <3>1
<1>13. CASE ok[t] /\ written[t] < Lead(t)
  <2>1. t = "uart" /\ Lead(t) = 1 /\ written[t] = 0 /\ Ahead(t) = PrefixLen
    <3>1. CASE t = "uart"
      BY <1>1, <1>13, <3>1 DEF Lead, Ahead
    <3>2. CASE t # "uart"
      BY <1>1, <1>13, <3>2 DEF Lead
    <3>3. QED
      BY <3>1, <3>2
  <2>2. src = Text(PrefixLen)
    <3>1. src = Report(t)[1]
      BY <2>1
    <3>2. QED
      BY <1>1, <1>13, <2>1, <3>1, ReportIs
  <2>3. QED
    BY <1>2, <1>7, <1>10, <1>13, <2>1, <2>2
<1>14. CASE ok[t] /\ written[t] > Lead(t)
  <2>1. Lead(t) \in 0..1
    BY DEF Lead
  <2> DEFINE i == written[t] + 1 - Lead(t)
  <2>2. i \in 2..4 /\ written[t] + 1 = Lead(t) + i
    <3>1. Len(Report(t)) = Lead(t) + 4
      BY <1>1, <1>14, ReportIs
    <3>2. QED
      BY <1>1, <1>14, <2>1, <3>1
  <2> HIDE DEF i
  <2>3. i \in 1..4
    BY <2>2
  <2>4. src = Lines(t)[i]
    <3>1. src = Report(t)[Lead(t) + i]
      BY <2>2
    <3>2. QED
      BY <1>1, <1>14, <2>3, <3>1, ReportIs
  <2>5. src \in {Text(BytesLen), Number(filled[t]), Text(EolLen)}
    BY <2>2, <2>4 DEF Lines
  <2>6. ~(written[t] = Lead(t)) /\ ~(written[t] < Lead(t))
    BY <1>1, <1>14, <2>1
  <2>7. Len(src) \in Nat /\ \A j \in 1..Len(src) : src[j] \in Cell /\ ~IsPayload(src[j])
    BY <1>2, <1>7, <1>8, <2>5
  <2>8. QED
    BY <1>10, <2>6, <2>7
<1>15. QED
  <2>1. Lead(t) \in 0..1
    BY DEF Lead
  <2>2. QED
    BY <1>1, <1>11, <1>12, <1>13, <1>14, <2>1

-----------------------------------------------------------------------------
(* Composing and writing.                                                  *)

\* Steps of the loop that change neither the buffers' places nor the read.
LEMMA StageTypes ==
    ASSUME Types, NEW t \in Task, NEW s \in Looping, stage' = [stage EXCEPT ![t] = s]
    PROVE  /\ stage' \in [Task -> {"ask rx", "own rx", "ask tx", "own tx", "greet",
                                   "delay"} \cup Looping]
           /\ stage'["uart"] # "delay" /\ stage'[t] = s
<1>1. /\ stage \in [Task -> {"ask rx", "own rx", "ask tx", "own tx", "greet",
                             "delay"} \cup Looping]
      /\ stage["uart"] # "delay" /\ "uart" \in Task
  BY DEF Types, Task
<1>2. s # "delay"
  BY DEF Looping
<1>3. QED
  BY <1>1, <1>2

\* A piece that fits goes behind what is there.
LEMMA PutIs ==
    ASSUME Types, NEW t \in Task, tx[t] \in Pool!Index, NEW src,
           Len(src) \in 0..(Size - len[t]), \A i \in 1..Len(src) : src[i] \in Cell,
           Put(t, src)
    PROVE  /\ len' \in [Task -> 0..Size] /\ len'[t] = len[t] + Len(src)
           /\ \A u \in Task : u # t => len'[u] = len[u]
           /\ mem' \in [Pool!Index -> [Place -> Cell]]
           /\ \A b \in Pool!Index : b # tx[t] => mem'[b] = mem[b]
           /\ \A p \in 1..len[t] : mem'[tx[t]][p] = mem[tx[t]][p]
           /\ \A i \in 1..Len(src) : mem'[tx[t]][len[t] + i] = src[i]
<1>1. len \in [Task -> 0..Size] /\ mem \in [Pool!Index -> [Place -> Cell]]
  BY DEF Types
<1>2. Size \in Nat /\ len[t] \in 0..Size
  BY <1>1, FirmwareAssumption
<1>3. len[t] + Len(src) \in 0..Size /\ Len(src) \in Nat /\ len[t] \in Nat
  BY <1>2
<1> DEFINE new == [p \in Place |-> IF p \in (len[t] + 1)..(len[t] + Len(src))
                                   THEN src[p - len[t]] ELSE mem[tx[t]][p]]
<1>4. /\ len' = [len EXCEPT ![t] = len[t] + Len(src)]
      /\ mem' = [mem EXCEPT ![tx[t]] = new]
  BY DEF Put
<1>5. mem[tx[t]] \in [Place -> Cell]
  BY <1>1
<1>6. ASSUME NEW p \in Place
      PROVE  new[p] \in Cell
  <2>1. CASE p \in (len[t] + 1)..(len[t] + Len(src))
    <3>1. p - len[t] \in 1..Len(src)
      BY <1>3, <2>1
    <3>2. new[p] = src[p - len[t]]
      BY <2>1
    <3>3. QED
      BY <3>1, <3>2
  <2>2. CASE p \notin (len[t] + 1)..(len[t] + Len(src))
    BY <1>5, <2>2
  <2>3. QED
    BY <2>1, <2>2
<1>7. new \in [Place -> Cell]
  BY <1>6
<1>8. \A p \in 1..len[t] : new[p] = mem[tx[t]][p]
  BY <1>2, <1>3 DEF Place
<1>9. ASSUME NEW i \in 1..Len(src)
      PROVE  new[len[t] + i] = src[i]
  <2>1. /\ len[t] + i \in 1..Size /\ len[t] + i \in (len[t] + 1)..(len[t] + Len(src))
        /\ (len[t] + i) - len[t] = i
    BY <1>2, <1>3
  <2>2. QED
    BY <2>1 DEF Place
<1> HIDE DEF new
<1>10. mem'[tx[t]] = new /\ mem' \in [Pool!Index -> [Place -> Cell]]
  BY <1>1, <1>4, <1>7
<1>11. \A b \in Pool!Index : b # tx[t] => mem'[b] = mem[b]
  BY <1>1, <1>4
<1>12. /\ len' \in [Task -> 0..Size] /\ len'[t] = len[t] + Len(src)
       /\ \A u \in Task : u # t => len'[u] = len[u]
  BY <1>1, <1>3, <1>4
<1>13. QED
  BY <1>8, <1>9, <1>10, <1>11, <1>12

\* A piece is added entirely, or left out because it does not fit.
LEMMA PieceStands ==
    ASSUME Types, Stations, Apart, NEW t \in Task, Read(t), Composing(t),
           stage[t] = "compose", written[t] < Len(Report(t)),
           NEW src, src = Report(t)[written[t] + 1],
           IF Size - len[t] < Len(src) THEN UNCHANGED <<mem, len>> ELSE Put(t, src),
           written' = [written EXCEPT ![t] = written[t] + 1],
           UNCHANGED <<stage, tx, ok, filled, round>>
    PROVE  Composing(t)'
<1>1. /\ written[t] \in 0..5 /\ len[t] \in 0..Size /\ ok[t] \in BOOLEAN
      /\ written'[t] = written[t] + 1
  BY DEF Types
<1>2. Size \in Nat /\ Ahead(t) \in Nat /\ Lead(t) \in 0..1
  BY FirmwareAssumption DEF Ahead, Lead
<1>3. /\ Len(src) \in Nat /\ Expected(t) \in 0..Size
      /\ ok[t] /\ written[t] = Lead(t) =>
            /\ Len(src) = Expected(t)
            /\ \A i \in 1..Len(src) :
                  src[i] = Byte(t, round[t], i) /\ src[i] \in Cell /\ IsPayload(src[i])
      /\ ~(ok[t] /\ written[t] = Lead(t)) =>
            \A i \in 1..Len(src) : src[i] \in Cell /\ ~IsPayload(src[i])
      /\ ok[t] /\ written[t] < Lead(t) => Len(src) = Ahead(t)
  BY PieceIs
<1>4. tx[t] \in Pool!Index
  BY TwoBuffers DEF Looping
<1>5. /\ written[t] = 0 => len[t] = 0
      /\ ok[t] /\ written[t] <= Lead(t) => len[t] <= Ahead(t)
  BY DEF Composing
<1>6. PICK from \in 0..len[t], n \in {0, Expected(t)} :
         /\ Stands(t, from, n)
         /\ ok[t] /\ written[t] <= Lead(t) => n = 0
         /\ \/ ok[t] /\ written[t] <= Lead(t)
            \/ n = Expected(t)
            \/ Ahead(t) + Expected(t) > Size
  BY DEF Composing
<1>7. /\ stage'[t] = "compose" /\ ok'[t] = ok[t] /\ tx'[t] = tx[t] /\ round'[t] = round[t]
      /\ Expected(t)' = Expected(t)
  BY DEF Expected, PayloadLen
<1>8. len'[t] \in 0..Size /\ (ok[t] /\ written[t] < Lead(t) => len'[t] <= Ahead(t))
  <2>1. CASE Size - len[t] < Len(src)
    BY <1>1, <1>2, <1>5, <2>1
  <2>2. CASE ~(Size - len[t] < Len(src))
    <3>1. Len(src) \in 0..(Size - len[t])
      BY <1>1, <1>2, <1>3, <2>2
    <3>2. len'[t] = len[t] + Len(src)
      <4>1. \A i \in 1..Len(src) : src[i] \in Cell
        BY <1>3
      <4>2. QED
        BY <1>4, <2>2, <3>1, <4>1, PutIs
    <3>3. ok[t] /\ written[t] < Lead(t) => len[t] = 0 /\ Len(src) = Ahead(t)
      BY <1>1, <1>2, <1>3, <1>5
    <3>4. QED
      BY <1>1, <1>2, <3>1, <3>2, <3>3
  <2>3. QED
    BY <2>1, <2>2
\* It is enough to say where the payload stands now.
<1>9. SUFFICES \E f \in 0..len'[t], m \in {0, Expected(t)} :
                  /\ Stands(t, f, m)'
                  /\ ok[t] /\ written[t] + 1 <= Lead(t) => m = 0
                  /\ \/ ok[t] /\ written[t] + 1 <= Lead(t)
                     \/ m = Expected(t)
                     \/ Ahead(t) + Expected(t) > Size
  <2>1. /\ ok'[t] /\ written'[t] <= Lead(t) => len'[t] <= Ahead(t)
        /\ written'[t] # 0
    BY <1>1, <1>2, <1>7, <1>8
  <2>2. stage'[t] \notin {"read", "write"} /\ stage'[t] \in {"compose", "write"}
    BY <1>7
  <2>3. QED
    BY <1>1, <1>7, <1>9, <2>1, <2>2 DEF Composing
<1>10. CASE Size - len[t] < Len(src)
  <2>1. UNCHANGED <<mem, len>>
    BY <1>10
  <2>2. Stands(t, from, n)'
    BY <1>6, <1>7, <2>1 DEF Stands
  <2>3. ok[t] /\ written[t] = Lead(t) => Ahead(t) + Expected(t) > Size
    BY <1>1, <1>2, <1>3, <1>5, <1>10
  <2>4. ok[t] /\ written[t] + 1 <= Lead(t) => n = 0
    BY <1>1, <1>2, <1>6
  <2>5. \/ ok[t] /\ written[t] + 1 <= Lead(t)
        \/ n = Expected(t)
        \/ Ahead(t) + Expected(t) > Size
    BY <1>1, <1>2, <1>6, <2>3
  <2>6. from \in 0..len'[t]
    BY <2>1
  <2>7. QED
    BY <2>2, <2>4, <2>5, <2>6
<1>11. CASE ~(Size - len[t] < Len(src))
  <2>1. Len(src) \in 0..(Size - len[t]) /\ Put(t, src)
    BY <1>1, <1>2, <1>3, <1>11
  <2>2. \A i \in 1..Len(src) : src[i] \in Cell
    BY <1>3
  <2>3. /\ len'[t] = len[t] + Len(src)
        /\ \A p \in 1..len[t] : mem'[tx[t]][p] = mem[tx[t]][p]
        /\ \A i \in 1..Len(src) : mem'[tx[t]][len[t] + i] = src[i]
    BY <1>4, <2>1, <2>2, PutIs
  <2>4. \A p \in 1..len'[t] :
           \/ p \in 1..len[t]
           \/ \E i \in 1..Len(src) : p = len[t] + i
    <3>1. ASSUME NEW p \in 1..len'[t], p \notin 1..len[t]
          PROVE  p - len[t] \in 1..Len(src) /\ p = len[t] + (p - len[t])
      <4>1. p \in 1..(len[t] + Len(src)) /\ len[t] \in Nat /\ Len(src) \in Nat
        BY <1>1, <1>2, <1>3, <2>3
      <4>2. QED
        BY <3>1, <4>1
    <3>2. QED
      BY <3>1
  <2>5. \A p \in 1..len[t] : p \in 1..len'[t]
    BY <1>1, <1>2, <1>3, <2>3
  <2>6. \A i \in 1..Len(src) : len[t] + i \in 1..len'[t] /\ len[t] + i \notin 1..len[t]
    BY <1>1, <1>2, <1>3, <2>3
  <2>7. CASE ok[t] /\ written[t] = Lead(t)
    <3>1. n = 0 /\ Len(src) = Expected(t)
      BY <1>2, <1>3, <1>6, <2>7
    <3>2. \A p \in 1..len[t] : ~IsPayload(mem[tx[t]][p])
      <4>1. (from + 1)..(from + n) = {}
        BY <1>1, <1>2, <3>1
      <4>2. QED
        BY <1>6, <4>1 DEF Stands
    <3>3. {p \in 1..len'[t] : IsPayload(mem'[tx[t]][p])}
              = (len[t] + 1)..(len[t] + Len(src))
      <4>1. ASSUME NEW p \in 1..len'[t]
            PROVE  IsPayload(mem'[tx[t]][p]) <=> p \in (len[t] + 1)..(len[t] + Len(src))
        <5>1. CASE p \in 1..len[t]
          <6>1. ~IsPayload(mem'[tx[t]][p])
            BY <2>3, <3>2, <5>1
          <6>2. p \notin (len[t] + 1)..(len[t] + Len(src))
            BY <1>1, <1>2, <5>1
          <6>3. QED
            BY <6>1, <6>2
        <5>2. CASE \E i \in 1..Len(src) : p = len[t] + i
          <6>1. PICK i \in 1..Len(src) : p = len[t] + i
            BY <5>2
          <6>2. mem'[tx[t]][p] = src[i]
            BY <2>3, <6>1
          <6>3. IsPayload(src[i])
            BY <1>3, <2>7
          <6>4. p \in (len[t] + 1)..(len[t] + Len(src))
            BY <1>1, <1>2, <1>3, <6>1
          <6>5. QED
            BY <6>2, <6>3, <6>4
        <5>3. QED
          BY <2>4, <5>1, <5>2
      <4>2. ASSUME NEW p \in (len[t] + 1)..(len[t] + Len(src))
            PROVE  p \in 1..len'[t]
        BY <1>1, <1>2, <1>3, <2>3
      <4>3. QED
        BY <4>1, <4>2
    <3>4. \A i \in 1..Len(src) : mem'[tx[t]][len[t] + i] = Byte(t, round[t], i)
      <4>1. \A i \in 1..Len(src) : src[i] = Byte(t, round[t], i)
        BY <1>3, <2>7
      <4>2. QED
        BY <2>3, <4>1
    <3>5. PICK f \in 0..Size, m \in 0..Size : f = len[t] /\ m = Expected(t)
      BY <1>1, <1>3
    <3>6. Stands(t, f, m)'
      <4>1. {p \in 1..len'[t] : IsPayload(mem'[tx'[t]][p])} = (f + 1)..(f + m)
        BY <1>7, <3>1, <3>3, <3>5
      <4>2. \A i \in 1..m : mem'[tx'[t]][f + i] = Byte(t, round'[t], i)
        BY <1>7, <3>1, <3>4, <3>5
      <4>3. QED
        BY <4>1, <4>2 DEF Stands
    <3>7. ~(written[t] + 1 <= Lead(t)) /\ len[t] \in 0..len'[t]
      BY <1>1, <1>2, <1>3, <2>3, <2>7
    <3>8. f \in 0..len'[t] /\ m \in {0, Expected(t)}
      BY <3>5, <3>7
    <3>9. QED
      BY <3>5, <3>6, <3>7, <3>8
  <2>8. CASE ~(ok[t] /\ written[t] = Lead(t))
    <3>1. \A i \in 1..Len(src) : ~IsPayload(src[i])
      BY <1>3, <2>8
    <3>2. {p \in 1..len'[t] : IsPayload(mem'[tx[t]][p])}
              = {p \in 1..len[t] : IsPayload(mem[tx[t]][p])}
      <4>1. \A p \in 1..len'[t] : IsPayload(mem'[tx[t]][p]) => p \in 1..len[t]
        <5>1. \A i \in 1..Len(src) : ~IsPayload(mem'[tx[t]][len[t] + i])
          BY <2>3, <3>1
        <5>2. QED
          BY <2>4, <5>1
      <4>2. \A p \in 1..len[t] : IsPayload(mem'[tx[t]][p]) <=> IsPayload(mem[tx[t]][p])
        BY <2>3
      <4>3. QED
        BY <2>5, <4>1, <4>2
    <3>3. \A i \in 1..n : from + i \in 1..len[t]
      <4>1. \A i \in 1..n : from + i \in (from + 1)..(from + n)
        BY <1>1, <1>2, <1>3
      <4>2. (from + 1)..(from + n) \subseteq 1..len[t]
        BY <1>6 DEF Stands
      <4>3. QED
        BY <4>1, <4>2
    <3>4. \A i \in 1..n : mem'[tx[t]][from + i] = Byte(t, round[t], i)
      BY <1>6, <2>3, <3>3 DEF Stands
    <3>5. Stands(t, from, n)'
      BY <1>6, <1>7, <3>2, <3>4 DEF Stands
    <3>6. from \in 0..len'[t]
      BY <1>1, <1>2, <1>3, <2>3
    <3>7. ok[t] /\ written[t] + 1 <= Lead(t) => n = 0
      BY <1>1, <1>2, <1>6
    <3>8. \/ ok[t] /\ written[t] + 1 <= Lead(t)
          \/ n = Expected(t)
          \/ Ahead(t) + Expected(t) > Size
      BY <1>1, <1>2, <1>6, <2>8
    <3>9. QED
      BY <3>5, <3>6, <3>7, <3>8
  <2>9. QED
    BY <2>7, <2>8
<1>12. QED
  BY <1>10, <1>11

LEMMA ComposeKeeps ==
    ASSUME Inv, NEW t \in Task, Compose(t)
    PROVE  Inv'
<1>1. /\ Types /\ Stations /\ Apart
      /\ \A u \in Task : Read(u) /\ Composing(u) /\ Sent(u)
  BY DEF Inv
<1> DEFINE src == Report(t)[written[t] + 1]
<1>2. /\ stage[t] = "compose" /\ written[t] < Len(Report(t))
      /\ written' = [written EXCEPT ![t] = written[t] + 1]
      /\ UNCHANGED <<running, stage, poolVars, bufferVars, readVars, sent>>
      /\ IF Size - len[t] < Len(src) THEN UNCHANGED <<mem, len>> ELSE Put(t, src)
  BY DEF Compose, At, write_all
<1> HIDE DEF src
<1>3. src = Report(t)[written[t] + 1]
  BY DEF src
<1>4. UNCHANGED <<rx, tx, round, filled, ok>>
  BY <1>2 DEF bufferVars, readVars
<1>5. stage[t] \in Looping /\ "compose" \in Looping
  BY <1>2 DEF Looping
<1>6. rx[t] \in Pool!Index /\ tx[t] \in Pool!Index /\ rx[t] # tx[t]
  BY <1>1, <1>5, TwoBuffers
<1>7. /\ len \in [Task -> 0..Size] /\ mem \in [Pool!Index -> [Place -> Cell]]
      /\ written \in [Task -> 0..5] /\ ok[t] \in BOOLEAN
      /\ stage \in [Task -> {"ask rx", "own rx", "ask tx", "own tx", "greet",
                             "delay"} \cup Looping]
      /\ Size \in Nat
  BY <1>1, FirmwareAssumption DEF Types
<1>8. /\ Len(src) \in Nat
      /\ \A i \in 1..Len(src) : src[i] \in Cell
  <2>1. Read(t)
    BY <1>1
  <2>2. /\ Len(src) \in Nat
        /\ IF ok[t] /\ written[t] = Lead(t)
           THEN \A i \in 1..Len(src) :
                   /\ src[i] = Byte(t, round[t], i)
                   /\ src[i] \in Cell /\ IsPayload(src[i])
           ELSE \A i \in 1..Len(src) : src[i] \in Cell /\ ~IsPayload(src[i])
    BY <1>1, <1>2, <1>3, <2>1, PieceIs
  <2>3. QED
    BY <2>2
<1>9. /\ len' \in [Task -> 0..Size] /\ len[t] <= len'[t]
      /\ \A u \in Task : u # t => len'[u] = len[u]
      /\ mem' \in [Pool!Index -> [Place -> Cell]]
      /\ \A b \in Pool!Index : b # tx[t] => mem'[b] = mem[b]
  <2>0. len[t] \in 0..Size /\ Size \in Nat
    BY <1>7
  <2>1. CASE Size - len[t] < Len(src)
    <3>1. UNCHANGED <<mem, len>>
      BY <1>2, <2>1
    <3>2. len[t] <= len'[t]
      BY <2>0, <3>1
    <3>3. QED
      BY <1>7, <3>1, <3>2
  <2>2. CASE ~(Size - len[t] < Len(src))
    <3>1. Len(src) \in 0..(Size - len[t])
      BY <1>8, <2>0, <2>2
    <3>2. Put(t, src)
      BY <1>2, <2>2
    <3>3. /\ len' \in [Task -> 0..Size] /\ len'[t] = len[t] + Len(src)
          /\ \A u \in Task : u # t => len'[u] = len[u]
          /\ mem' \in [Pool!Index -> [Place -> Cell]]
          /\ \A b \in Pool!Index : b # tx[t] => mem'[b] = mem[b]
      BY <1>1, <1>6, <1>8, <3>1, <3>2, PutIs
    <3>4. len[t] <= len[t] + Len(src)
      BY <1>8, <2>0
    <3>5. QED
      BY <3>3, <3>4
  <2>3. QED
    BY <2>1, <2>2
<1>10. written' \in [Task -> 0..5]
  <2>1. Len(Report(t)) \in 0..5
    <3>1. Lead(t) \in 0..1
      BY DEF Lead
    <3>2. CASE ok[t]
      <4>1. Len(Report(t)) = Lead(t) + 4
        BY <1>7, <3>2, ReportIs
      <4>2. QED
        BY <3>1, <4>1
    <3>3. CASE ~ok[t]
      <4>1. Len(Report(t)) \in 0..1
        BY <1>7, <3>3, ReportIs
      <4>2. QED
        BY <4>1
    <3>4. QED
      BY <3>2, <3>3
  <2>2. written[t] + 1 \in 0..5
    <3>1. written[t] \in Nat
      <4>1. written[t] \in 0..5
        BY <1>7
      <4>2. QED
        BY <4>1
    <3>2. PICK l \in 0..5 : l = Len(Report(t))
      BY <2>1
    <3>3. written[t] < l
      BY <1>2, <3>2
    <3>4. QED
      BY ONLY <3>1, <3>3, l \in 0..5
  <2>3. QED
    BY <1>2, <1>7, <2>2
<1>11. Types'
  BY <1>1, <1>2, <1>4, <1>9, <1>10 DEF Types
<1>12. OwnOnly(t)
  <2>1. \A u \in Task : u # t => written'[u] = written[u]
    BY <1>2, <1>7
  <2>2. QED
    BY <1>2, <1>4, <1>9, <2>1 DEF OwnOnly
<1>13. Read(t)'
  <2>1. stage'[t] = "compose" /\ HasTx(t)'
    BY <1>2, <1>5 DEF HasTx
  <2>2. mem'[rx'[t]] = mem[rx[t]]
    BY <1>4, <1>6, <1>9
  <2>3. \A p \in 1..filled[t] : mem[rx[t]][p] = Byte(t, round[t], p)
    BY <1>1, <1>2 DEF Read
  <2>4. ok[t] => filled[t] > 0
    BY <1>1 DEF Read
  <2>5. QED
    BY <1>4, <2>1, <2>2, <2>3, <2>4 DEF Read
<1>14. Composing(t)'
  BY <1>1, <1>2, <1>3, <1>4, PieceStands
<1>15. Sent(t)'
  <2>1. sent'[t] = <<>> /\ stage'[t] = "compose"
    BY <1>1, <1>2 DEF Sent
  <2>2. len'[t] \in 0..Size /\ Size \in Nat
    BY <1>7, <1>9
  <2>3. Len(sent'[t]) <= len'[t]
    <3>1. Len(sent'[t]) = 0
      BY <2>1
    <3>2. QED
      BY <2>2, <3>1
  <2>4. QED
    BY <2>1, <2>3 DEF Sent
<1>16. stage' = [stage EXCEPT ![t] = "compose"]
  BY <1>2, <1>7
<1>17. UNCHANGED <<poolVars, bufferVars>>
  BY <1>2
<1>18. QED
  BY <1>5, <1>11, <1>12, <1>13, <1>14, <1>15, <1>16, <1>17, LoopKeeps

LEMMA ComposedKeeps ==
    ASSUME Inv, NEW t \in Task, Composed(t)
    PROVE  Inv'
<1>1. /\ Types /\ Stations /\ Apart
      /\ \A u \in Task : Read(u) /\ Composing(u) /\ Sent(u)
  BY DEF Inv
<1>2. /\ stage[t] = "compose" /\ written[t] = Len(Report(t))
      /\ stage' = [stage EXCEPT ![t] = "write"]
      /\ UNCHANGED <<poolVars, bufferVars>>
      /\ UNCHANGED <<running, mem, rx, tx, round, filled, ok, len, written, sent>>
  BY DEF Composed, At, Goto, bufferVars, readVars, reportVars
<1>3. stage[t] \in Looping /\ "write" \in Looping
  BY <1>2 DEF Looping
<1>4. stage'[t] = "write"
  BY <1>1, <1>2, <1>3, StageTypes
<1>5. Types'
  BY <1>1, <1>2, <1>3, StageTypes DEF Types
<1>6. OwnOnly(t)
  BY <1>2 DEF OwnOnly
<1>7. Read(t)'
  <2>1. HasTx(t)'
    BY <1>3, <1>4 DEF HasTx
  <2>2. /\ \A p \in 1..filled[t] : mem[rx[t]][p] = Byte(t, round[t], p)
        /\ ok[t] => filled[t] > 0
    BY <1>1, <1>2 DEF Read
  <2>3. QED
    BY <1>2, <1>4, <2>1, <2>2 DEF Read
<1>8. Composing(t)'
  <2>1. ok[t] => written[t] > Lead(t)
    <3>1. ok[t] \in BOOLEAN
      BY <1>1 DEF Types
    <3>2. Lead(t) \in 0..1
      BY DEF Lead
    <3>3. ok[t] => Len(Report(t)) = Lead(t) + 4
      BY <3>1, ReportIs
    <3>4. ok[t] => written[t] = Lead(t) + 4
      BY <1>2, <3>3
    <3>5. QED
      BY <3>2, <3>4
  <2>2. Expected(t)' = Expected(t)
    BY <1>2 DEF Expected, PayloadLen
  <2>3. \A from, n : Stands(t, from, n)' <=> Stands(t, from, n)
    BY <1>2 DEF Stands
  <2>4. QED
    BY <1>1, <1>2, <1>4, <2>1, <2>2, <2>3 DEF Composing
<1>9. Sent(t)'
  BY <1>1, <1>2, <1>4 DEF Sent
<1>10. QED
  BY <1>2, <1>3, <1>5, <1>6, <1>7, <1>8, <1>9, LoopKeeps

\* The device takes the report up to some place: text, and of the payload as
\* much as stands before that place.
LEMMA TakenStands ==
    ASSUME Types, NEW t \in Task, tx[t] \in Pool!Index,
           NEW from \in 0..len[t], NEW n \in 0..Size, Stands(t, from, n),
           NEW k \in 0..len[t], sent'[t] = SubSeq(mem[tx[t]], 1, k),
           UNCHANGED round[t]
    PROVE  /\ Len(sent'[t]) = k
           /\ \E m \in 0..n : Carries(t, m)' /\ (k = len[t] => m = n)
<1>1. Size \in Nat /\ len[t] \in 0..Size
  BY FirmwareAssumption DEF Types
<1>2. n \in Nat /\ from \in Nat /\ k \in Nat /\ k <= len[t] /\ len[t] \in Nat
  BY <1>1
<1> DEFINE b == mem[tx[t]]
<1>3. \A i \in 1..k : b[i] \in Cell
  <2>1. b \in [Place -> Cell]
    BY DEF Types
  <2>2. QED
    BY <1>1, <2>1 DEF Place
<1>4. /\ {p \in 1..len[t] : IsPayload(b[p])} = (from + 1)..(from + n)
      /\ \A i \in 1..n : b[from + i] = Byte(t, round[t], i)
  BY DEF Stands
<1> HIDE DEF b
<1>5. Len(sent'[t]) = k /\ \A i \in 1..k : sent'[t][i] = b[i]
  <2>1. k \in Int /\ 1 \in Int
    BY <1>1
  <2>2. /\ Len(SubSeq(b, 1, k)) = IF 1 <= k THEN k - 1 + 1 ELSE 0
        /\ \A i \in 1..(k - 1 + 1) : SubSeq(b, 1, k)[i] = b[1 + i - 1]
    BY <1>3, <2>1, SubSeqProperties
  <2>3. Len(SubSeq(b, 1, k)) = k
    BY <1>1, <2>2
  <2>4. \A i \in 1..k : i \in 1..(k - 1 + 1) /\ 1 + i - 1 = i
    BY <2>1
  <2>5. QED
    BY <2>2, <2>3, <2>4 DEF b
<1>6. n > 0 => from + n <= len[t]
  <2>1. n > 0 => from + n \in (from + 1)..(from + n)
    BY <1>2
  <2>2. QED
    BY <1>2, <1>4, <2>1
<1>7. PICK f \in 0..k, m \in 0..n :
         /\ f = IF k <= from THEN k ELSE from
         /\ m = IF k <= from THEN 0 ELSE IF k - from < n THEN k - from ELSE n
  <2>1. CASE k <= from
    BY <1>2, <2>1
  <2>2. CASE ~(k <= from) /\ k - from < n
    <3>1. from \in 0..k /\ k - from \in 0..n
      BY <1>2, <2>2
    <3>2. QED
      BY <2>2, <3>1
  <2>3. CASE ~(k <= from) /\ ~(k - from < n)
    <3>1. from \in 0..k /\ n \in 0..n
      BY <1>2, <2>3
    <3>2. QED
      BY <2>3, <3>1
  <2>4. QED
    BY <2>1, <2>2, <2>3
<1>8. ASSUME NEW p \in 1..k
      PROVE  IsPayload(sent'[t][p]) <=> p \in (f + 1)..(f + m)
  <2>0. p \in 1..len[t]
    BY <1>2
  <2>1. sent'[t][p] = b[p]
    BY <1>5
  <2>2. IsPayload(b[p]) <=> p \in (from + 1)..(from + n)
    BY <1>4, <2>0
  <2>3. p \in (from + 1)..(from + n) <=> p \in (f + 1)..(f + m)
    BY <1>2, <1>7
  <2>4. QED
    BY <2>1, <2>2, <2>3
<1>9. \A p \in (f + 1)..(f + m) : p \in 1..k
  BY <1>2, <1>7
<1>10. {p \in 1..Len(sent'[t]) : IsPayload(sent'[t][p])} = (f + 1)..(f + m)
  BY <1>5, <1>8, <1>9
<1>11. ASSUME NEW i \in 1..m
       PROVE  sent'[t][f + i] = Byte(t, round'[t], i)
  <2>1. f = from /\ from + i \in 1..k /\ i \in 1..n
    BY <1>2, <1>7
  <2>2. QED
    BY <1>4, <1>5, <2>1
<1>12. Carries(t, m)'
  <2>1. f \in 0..Len(sent'[t])
    BY <1>5
  <2>2. QED
    BY <1>10, <1>11, <2>1 DEF Carries
<1>13. k = len[t] => m = n
  BY <1>2, <1>6, <1>7
<1>14. QED
  BY <1>5, <1>12, <1>13

LEMMA WriteKeeps ==
    ASSUME Inv, NEW t \in Task, NEW k \in 0..Size, Write(t, k)
    PROVE  Inv'
<1>1. /\ Types /\ Stations /\ Apart
      /\ \A u \in Task : Read(u) /\ Composing(u) /\ Sent(u)
  BY DEF Inv
<1>2. /\ stage[t] = "write" /\ k \in 0..len[t]
      /\ stage' = [stage EXCEPT ![t] = "loop"]
      /\ sent' = [sent EXCEPT ![t] = SubSeq(mem[tx[t]], 1, k)]
      /\ UNCHANGED <<poolVars, bufferVars>>
      /\ UNCHANGED <<running, mem, rx, tx, round, filled, ok, len, written>>
  BY DEF Write, At, Goto, bufferVars, readVars
<1>3. stage[t] \in Looping /\ "loop" \in Looping
  BY <1>2 DEF Looping
<1>4. stage'[t] = "loop"
  BY <1>1, <1>2, <1>3, StageTypes
<1>5. DOMAIN sent' = Task /\ sent'[t] = SubSeq(mem[tx[t]], 1, k)
      /\ \A u \in Task : u # t => sent'[u] = sent[u]
  BY <1>1, <1>2 DEF Types
<1>6. Types'
  BY <1>1, <1>2, <1>3, <1>5, StageTypes DEF Types
<1>7. OwnOnly(t)
  BY <1>2, <1>5 DEF OwnOnly
<1>8. Read(t)'
  <2>1. HasTx(t)'
    BY <1>3, <1>4 DEF HasTx
  <2>2. ok[t] => filled[t] > 0
    BY <1>1 DEF Read
  <2>3. QED
    BY <1>2, <1>4, <2>1, <2>2 DEF Read
<1>9. Composing(t)'
  BY <1>4 DEF Composing
<1>10. Sent(t)'
  <2>1. tx[t] \in Pool!Index
    BY <1>1, <1>3, TwoBuffers
  <2>2. Expected(t)' = Expected(t) /\ Ahead(t)' = Ahead(t)
    BY <1>2 DEF Expected, PayloadLen, Ahead
  <2>3. /\ ok[t] \in BOOLEAN /\ filled[t] \in 0..Size /\ len[t] \in 0..Size
        /\ written[t] \in 0..5 /\ Size \in Nat
    BY <1>1, FirmwareAssumption DEF Types
  <2>4. Expected(t) \in 0..Size
    <3>1. ok[t] => filled[t] > 0
      BY <1>1 DEF Read
    <3>2. QED
      BY <2>3, <3>1 DEF Expected, PayloadLen
  <2>5. ok[t] => written[t] > Lead(t)
    BY <1>1, <1>2 DEF Composing
  <2>6. Lead(t) \in 0..1
    BY DEF Lead
  <2>7. PICK from \in 0..len[t], n \in {0, Expected(t)} :
           /\ Stands(t, from, n)
           /\ n = Expected(t) \/ Ahead(t) + Expected(t) > Size
    <3>1. PICK from \in 0..len[t], n \in {0, Expected(t)} :
             /\ Stands(t, from, n)
             /\ \/ ok[t] /\ written[t] <= Lead(t)
                \/ n = Expected(t)
                \/ Ahead(t) + Expected(t) > Size
      BY <1>1, <1>2 DEF Composing
    <3>2. ~(ok[t] /\ written[t] <= Lead(t))
      BY <2>3, <2>5, <2>6
    <3>3. QED
      BY <3>1, <3>2
  <2>8. n \in 0..Size /\ n \in 0..Expected(t)
    BY <2>3, <2>4
  <2>9. /\ Len(sent'[t]) = k
        /\ \E m \in 0..n : Carries(t, m)' /\ (k = len[t] => m = n)
    BY <1>1, <1>2, <1>5, <2>1, <2>7, <2>8, TakenStands
  <2>10. PICK m \in 0..n : Carries(t, m)' /\ (k = len[t] => m = n)
    BY <2>9
  <2>11. m \in 0..Expected(t) /\ len'[t] = len[t] /\ Len(sent'[t]) <= len'[t]
    BY <1>2, <2>3, <2>4, <2>8, <2>9
  <2>12. Len(sent'[t]) = len'[t] => m = n
    BY <2>9, <2>10, <2>11
  <2>13. /\ m \in 0..Expected(t)'
         /\ Len(sent'[t]) = len'[t] => m \in {0, Expected(t)'}
         /\ Len(sent'[t]) = len'[t] =>
               m = Expected(t)' \/ Ahead(t)' + Expected(t)' > Size
    BY <2>2, <2>7, <2>11, <2>12
  <2>14. QED
    BY <1>4, <2>10, <2>11, <2>13 DEF Sent
<1>11. QED
  BY <1>2, <1>3, <1>6, <1>7, <1>8, <1>9, <1>10, LoopKeeps

-----------------------------------------------------------------------------
(* Every step, and what follows.                                           *)

LEMMA PendingKeeps ==
    ASSUME Inv, running' \in Task,
           UNCHANGED <<stage, mem, poolVars, bufferVars, readVars, reportVars>>
    PROVE  Inv'
<1>1. /\ Types /\ Stations /\ Apart
      /\ \A u \in Task : Read(u) /\ Composing(u) /\ Sent(u)
  BY DEF Inv
<1>2. UNCHANGED <<stage, mem, handle, slices, requests, rx, tx, round, filled, ok,
                  len, written, sent>>
  BY DEF poolVars, bufferVars, readVars, reportVars
<1>3. Types'
  BY <1>1, <1>2 DEF Types
<1>4. \A u \in Task : (HasRx(u)' <=> HasRx(u)) /\ (HasTx(u)' <=> HasTx(u))
  BY <1>2 DEF HasRx, HasTx
<1>5. \A u \in Task : Asked(u)' = Asked(u)
  BY <1>2, <1>4 DEF Asked
<1>6. Stations'
  BY <1>1, <1>2, <1>4, <1>5 DEF Stations, Task
<1>7. Apart'
  BY <1>1, <1>2 DEF Apart
<1>8. ASSUME NEW u \in Task
      PROVE  Read(u)' /\ Composing(u)' /\ Sent(u)'
  <2>1. Same(u) /\ UNCHANGED stage[u]
    BY <1>2 DEF Same
  <2>2. QED
    BY <1>1, <2>1, Frame
<1>9. QED
  BY <1>3, <1>6, <1>7, <1>8 DEF Inv

LEMMA StepKeeps ==
    ASSUME Inv, PoolInv, PoolInv', [Next]_vars
    PROVE  Inv'
<1>1. ASSUME NEW t \in Task, Pending(t)
      PROVE  Inv'
  <2>1. running' \in Task
    BY <1>1 DEF Pending, Other, Task
  <2>2. QED
    BY <1>1, <2>1, PendingKeeps DEF Pending
<1>2. ASSUME UNCHANGED vars
      PROVE  Inv'
  <2>1. running' \in Task
    BY <1>2 DEF vars, Inv, Types
  <2>2. UNCHANGED <<stage, mem, poolVars, bufferVars, readVars, reportVars>>
    BY <1>2 DEF vars
  <2>3. QED
    BY <2>1, <2>2, PendingKeeps
<1>3. ASSUME NEW t \in Task, Begin(t)
      PROVE  Inv'
  BY <1>3, BeginKeeps
<1>4. ASSUME NEW t \in Task, StartRound(t)
      PROVE  Inv'
  BY <1>4, StartRoundKeeps
<1>5. ASSUME NEW t \in Task, Compose(t)
      PROVE  Inv'
  BY <1>5, ComposeKeeps
<1>6. ASSUME NEW t \in Task, Composed(t)
      PROVE  Inv'
  BY <1>6, ComposedKeeps
<1>7. ASSUME NEW t \in Task, NEW n \in 0..Size, Write(t, n)
      PROVE  Inv'
  BY <1>7, WriteKeeps
<1>8. ASSUME \/ \E t \in Task : \E n \in 0..(Size - filled[t]), success \in BOOLEAN :
                   ReadEnds(t, n, success)
             \/ \E n \in 1..(Size - filled["uart"]) : ReadOn(n)
      PROVE  Inv'
  BY <1>8, ReadKeeps
<1>9. QED
  BY <1>1, <1>2, <1>3, <1>4, <1>5, <1>6, <1>7, <1>8 DEF Next

LEMMA Invariance == Spec => []Inv
<1>1. Inv /\ PoolInv /\ PoolInv' /\ [Next]_vars => Inv'
  BY StepKeeps
<1>2. QED
  BY InitInv, PoolInvariance, <1>1, PTL DEF Spec

LEMMA InvReports ==
    ASSUME Inv
    PROVE  ReportsOwnBytes /\ OmittedOnlyIfTooLong
<1>1. Types /\ \A t \in Task : Read(t) /\ Sent(t)
  BY DEF Inv
<1>2. ASSUME NEW t \in Task
      PROVE  /\ \E n \in 0..Expected(t) :
                   /\ Carries(t, n)
                   /\ Len(sent[t]) = len[t] => n \in {0, Expected(t)}
             /\ (stage[t] = "loop" /\ Len(sent[t]) = len[t]) =>
                   Carries(t, Expected(t)) \/ Ahead(t) + Expected(t) > Size
  <2>1. CASE stage[t] = "loop"
    BY <1>1, <2>1 DEF Sent
  <2>2. CASE stage[t] # "loop"
    <3>1. Carries(t, 0)
      BY <1>1, <2>2, NothingSent DEF Sent
    <3>2. 0 \in 0..Expected(t)
      <4>1. ok[t] => filled[t] > 0
        BY <1>1 DEF Read
      <4>2. filled[t] \in 0..Size /\ Size \in Nat
        BY <1>1, FirmwareAssumption DEF Types
      <4>3. Expected(t) \in Nat
        BY <4>1, <4>2 DEF Expected, PayloadLen
      <4>4. QED
        BY <4>3
    <3>3. QED
      BY <2>2, <3>1, <3>2
  <2>3. QED
    BY <2>1, <2>2
<1>3. QED
  BY <1>2 DEF ReportsOwnBytes, OmittedOnlyIfTooLong, Ahead

\* Every variable keeps its type: no length, count or position leaves its buffer
\* whatever the sizes of buffers and texts, and the handles and slices of the
\* two tasks are buffers of the pool.
THEOREM FirmwareTyped == Spec => []TypeOK
<1>1. Inv /\ PoolInv => TypeOK
  <2> SUFFICES ASSUME Inv, PoolInv
               PROVE  TypeOK
    OBVIOUS
  <2>1. Pool!TypeOK
    BY DEF PoolInv, Ring!TypeOK, Pool!TypeOK, Ring!Index, Pool!Index
  <2>2. Types /\ \A t \in Task : Len(sent[t]) <= len[t]
    BY DEF Inv, Sent
  <2>3. QED
    BY <2>1, <2>2 DEF TypeOK, Types
<1>2. QED
  BY Invariance, PoolInvariance, <1>1, PTL

\* The tasks never meet in a buffer: each of the four, two per task, keeps its
\* reader or its composer, though the pool counts all of them as free.
THEOREM BuffersStayApart == Spec => []Apart
<1>1. Inv => Apart
  BY DEF Inv
<1>2. QED
  BY Invariance, <1>1, PTL

\* What leaves a task is its own and of this round, in one piece, and entire or
\* absent when the device took the whole report.
THEOREM OwnBytesReported == Spec => []ReportsOwnBytes
<1>1. Inv => ReportsOwnBytes
  BY InvReports
<1>2. QED
  BY Invariance, <1>1, PTL

\* A line is left out of its report only if the prefix and the line together are
\* longer than the buffer, and the echo of a USB read never is.
THEOREM OnlyTooLongOmitted == Spec => []OmittedOnlyIfTooLong
<1>1. Inv => OmittedOnlyIfTooLong
  BY InvReports
<1>2. QED
  BY Invariance, <1>1, PTL
-----------------------------------------------------------------------------
(* The slices the drivers read into.                                       *)

\* No read has begun before the loop.
Unread == \A t \in Task : stage[t] \notin Looping => filled[t] = 0

\* Nothing that module SliceRead looks at changes.
Kept(u) == UNCHANGED <<Space(u), Held(u), ok[u]>>

\* A step as module SliceRead has them.
Begins(u) ==
    /\ Space(u) = 0
    /\ Space(u)' \in Nat
    /\ Held(u)' = <<>>
    /\ ok'[u] = FALSE

Grown(u) ==
    /\ Space(u) > 0
    /\ Len(Held(u)') \in Len(Held(u))..Space(u)
    /\ SubSeq(Held(u)', 1, Len(Held(u))) = Held(u)

Fills(u) == Grown(u) /\ UNCHANGED <<Space(u), ok[u]>>

Succeeds(u) == Grown(u) /\ Held(u)' # <<>> /\ Space(u)' = 0 /\ ok'[u] = TRUE

Fails(u) ==
    /\ Grown(u)
    /\ u = "uart" => Held(u)' = Held(u) /\ Len(Held(u)) = Space(u)
    /\ Space(u)' = 0
    /\ ok'[u] = FALSE

SliceStep(u) == Kept(u) \/ Begins(u) \/ Fills(u) \/ Succeeds(u) \/ Fails(u)

\* What stands at the front of a buffer stays when only what is behind changes.
LEMMA FrontStays ==
    ASSUME NEW old \in [Place -> Cell], NEW new \in [Place -> Cell],
           NEW k \in 0..Size, NEW n \in k..Size, \A p \in 1..k : new[p] = old[p]
    PROVE  SubSeq(SubSeq(new, 1, n), 1, k) = SubSeq(old, 1, k)
<1>1. Size \in Nat /\ k \in Nat /\ n \in Nat /\ k <= n /\ n \in 0..Size
  BY FirmwareAssumption
<1> DEFINE a == SubSeq(new, 1, n)
           b == SubSeq(old, 1, k)
<1>2. /\ a \in Seq(Cell) /\ Len(a) = n /\ \A i \in 1..n : a[i] = new[i]
      /\ b \in Seq(Cell) /\ Len(b) = k /\ \A i \in 1..k : b[i] = old[i]
  BY <1>1, FrontIs
<1> HIDE DEF a, b
<1>3. \A i \in 1..k : i \in 1..n /\ a[i] = b[i] /\ a[i] \in Cell
  <2>1. \A i \in 1..k : i \in 1..n
    BY <1>1
  <2>2. \A i \in 1..k : b[i] \in Cell
    BY <1>2, ElementOfSeq
  <2>3. QED
    BY <1>2, <2>1, <2>2
<1>4. /\ SubSeq(a, 1, k) \in Seq(Cell)
      /\ Len(SubSeq(a, 1, k)) = IF 1 <= k THEN k - 1 + 1 ELSE 0
      /\ \A i \in 1..(k - 1 + 1) : SubSeq(a, 1, k)[i] = a[1 + i - 1]
  <2>1. k \in Int /\ 1 \in Int
    BY <1>1
  <2>2. QED
    BY <1>3, <2>1, SubSeqProperties
<1>5. Len(SubSeq(a, 1, k)) = k
  BY <1>1, <1>4
<1>6. ASSUME NEW i \in 1..k
      PROVE  SubSeq(a, 1, k)[i] = b[i]
  <2>1. i \in 1..(k - 1 + 1) /\ 1 + i - 1 = i
    BY <1>1
  <2>2. QED
    BY <1>3, <1>4, <2>1
<1>7. SubSeq(a, 1, k) = b
  BY <1>2, <1>4, <1>5, <1>6, SeqEqual
<1>8. QED
  BY <1>7 DEF a, b

\* The slice depends on its own buffer alone.
LEMMA HeldKept ==
    ASSUME NEW u \in Task, UNCHANGED <<rx[u], filled[u], ok[u]>>, Space(u)' = Space(u),
           rx[u] # None => mem'[rx[u]] = mem[rx[u]]
    PROVE  Kept(u)
<1>1. Held(u)' = Held(u)
  BY DEF Held, Slice
<1>2. QED
  BY <1>1 DEF Kept

\* Neither a handle nor a conversion reaches a slice that is in use.
LEMMA SliceOfBegin ==
    ASSUME Inv, Unread, NEW t \in Task, Begin(t), NEW u \in Task
    PROVE  Kept(u)
<1>1. /\ stage' = [stage EXCEPT ![t] = Following(t, stage[t])]
      /\ stage[t] \in {"greet", "delay", "ask rx", "ask tx", "own rx", "own tx"}
      /\ UNCHANGED <<mem, filled, ok>>
      /\ IF stage[t] = "own rx" THEN rx' = [rx EXCEPT ![t] = handle[t]] ELSE rx' = rx
  BY DEF Begin, Resume, AskBuffer, IntoSlice, IntoFlatBuffer, At, Goto,
         readVars, reportVars, bufferVars
<1>2. Types /\ Stations
  BY DEF Inv
<1>3. stage'[t] = Following(t, stage[t]) /\ \A v \in Task : v # t => stage'[v] = stage[v]
  BY <1>1, <1>2 DEF Types
<1>4. Space(u)' = Space(u)
  <2>1. CASE u = t
    <3>1. Following(t, stage[t]) # "read"
      <4>1. t = "uart" => stage[t] # "delay"
        BY <1>2 DEF Types
      <4>2. CASE t = "usb"
        BY <1>1, <4>2, FollowingIs
      <4>3. CASE t = "uart"
        BY <1>1, <4>1, <4>3, FollowingIs
      <4>4. QED
        BY <4>2, <4>3 DEF Task
    <3>2. QED
      BY <1>1, <1>3, <2>1, <3>1 DEF Space
  <2>2. CASE u # t
    BY <1>3, <2>2 DEF Space
  <2>3. QED
    BY <2>1, <2>2
<1>5. CASE stage[t] = "own rx" /\ u = t
  <2>1. rx[t] = None /\ filled'[t] = 0
    BY <1>1, <1>2, <1>5 DEF Stations, HasRx, HasTx, Looping, Unread
  <2>2. Slice(t, 0)' = <<>>
    <3>1. 1 \in Int /\ 0 \in Int /\ 0 < 1
      OBVIOUS
    <3>2. QED
      BY <3>1, SubSeqEmpty DEF Slice
  <2>3. Held(t) = <<>> /\ Held(t)' = <<>>
    BY <2>1, <2>2 DEF Held, Slice
  <2>4. QED
    BY <1>1, <1>4, <1>5, <2>3 DEF Kept
<1>6. CASE ~(stage[t] = "own rx" /\ u = t)
  <2>1. rx'[u] = rx[u]
    BY <1>1, <1>2, <1>6 DEF Types
  <2>2. QED
    BY <1>1, <1>4, <2>1, HeldKept
<1>7. QED
  BY <1>5, <1>6

\* A step of the loop does not reach the other task's slice.
LEMMA SliceOfOther ==
    ASSUME Inv, NEW t \in Task, stage[t] \in Looping, UNCHANGED rx,
           \A b \in Pool!Index : b \notin {rx[t], tx[t]} => mem'[b] = mem[b],
           NEW s \in Looping, stage' = [stage EXCEPT ![t] = s],
           NEW u \in Task, u # t, UNCHANGED <<filled[u], ok[u]>>
    PROVE  Kept(u)
<1>1. rx[u] # None => mem'[rx[u]] = mem[rx[u]]
  BY OthersKept DEF Inv
<1>2. stage'[u] = stage[u]
  BY DEF Inv, Types
<1>3. QED
  BY <1>1, <1>2, HeldKept DEF Space

\* A round begins with an empty slice.
LEMMA SliceOfStartRound ==
    ASSUME Inv, NEW t \in Task, StartRound(t), NEW u \in Task
    PROVE  Kept(u) \/ Begins(u)
<1>1. Types /\ Stations /\ Apart
  BY DEF Inv
<1>2. /\ stage[t] = "loop"
      /\ filled' = [filled EXCEPT ![t] = 0]
      /\ ok' = [ok EXCEPT ![t] = FALSE]
      /\ stage' = [stage EXCEPT ![t] = "read"]
      /\ UNCHANGED <<mem, rx>>
  BY DEF StartRound, At, Goto, bufferVars
<1>3. stage[t] \in Looping /\ "read" \in Looping
  BY <1>2 DEF Looping
<1>4. CASE u # t
  <2>1. /\ UNCHANGED <<filled[u], ok[u]>>
        /\ \A b \in Pool!Index : b \notin {rx[t], tx[t]} => mem'[b] = mem[b]
    BY <1>1, <1>2, <1>4 DEF Types
  <2>2. QED
    BY <1>2, <1>3, <1>4, <2>1, SliceOfOther
<1>5. CASE u = t
  <2>1. stage'[t] = "read" /\ filled'[t] = 0 /\ ok'[t] = FALSE
    BY <1>1, <1>2, <1>3, StageTypes DEF Types
  <2>2. Slice(t, 0)' = <<>>
    <3>1. 1 \in Int /\ 0 \in Int /\ 0 < 1
      OBVIOUS
    <3>2. QED
      BY <3>1, SubSeqEmpty DEF Slice
  <2>3. Held(t)' = <<>>
    BY <2>1, <2>2 DEF Held, Slice
  <2>4. Space(t) = 0 /\ Space(t)' \in Nat
    BY <1>2, <2>1, FirmwareAssumption DEF Space
  <2>5. QED
    BY <1>5, <2>1, <2>3, <2>4 DEF Begins
<1>6. QED
  BY <1>4, <1>5

\* What the driver brings goes behind what is there, and to no other slice.
LEMMA SliceOfReceive ==
    ASSUME Inv, NEW t \in Task, stage[t] = "read", UNCHANGED rx,
           NEW n \in 0..(Size - filled[t]), Receive(t, n)
    PROVE  /\ Len(Held(t)) = filled[t] /\ Len(Held(t)') = filled[t] + n
           /\ filled[t] \in 0..Size /\ filled[t] + n \in 0..Size
           /\ Grown(t) /\ Held(t)' \in Seq(Cell)
           /\ \A b \in Pool!Index : b # rx[t] => mem'[b] = mem[b]
           /\ \A u \in Task : u # t => filled'[u] = filled[u]
<1>1. /\ Types /\ Stations /\ Apart
      /\ filled \in [Task -> 0..Size] /\ mem \in [Pool!Index -> [Place -> Cell]]
      /\ round[t] \in {0, 1} /\ Size \in Nat
  BY FirmwareAssumption DEF Inv, Types
<1>2. rx[t] \in Pool!Index /\ rx[t] # None
  <2>1. stage[t] \in Looping
    BY DEF Looping
  <2>2. rx[t] \in Pool!Index
    BY <1>1, <2>1, TwoBuffers
  <2>3. QED
    BY <1>1, <2>1, <2>2 DEF Stations, HasRx, HasTx
<1> DEFINE old == mem[rx[t]]
           new == [p \in Place |-> IF p \in (filled[t] + 1)..(filled[t] + n)
                                   THEN Byte(t, round[t], p) ELSE old[p]]
<1>3. /\ filled' = [filled EXCEPT ![t] = filled[t] + n]
      /\ mem' = [mem EXCEPT ![rx[t]] = new]
  BY DEF Receive
<1>4. filled[t] \in 0..Size /\ filled[t] + n \in filled[t]..Size /\ filled[t] + n \in 0..Size
  <2>1. filled[t] \in 0..Size
    BY <1>1
  <2>2. QED
    BY <1>1, <2>1
<1>5. old \in [Place -> Cell] /\ new \in [Place -> Cell]
  <2>1. \A p \in Place : Byte(t, round[t], p) \in Cell
    <3>1. t \in Origin /\ round[t] \in Nat /\ Place \subseteq Nat
      BY <1>1 DEF Origin, Place
    <3>2. QED
      BY <3>1, ByteIs
  <2>2. old \in [Place -> Cell]
    BY <1>1, <1>2
  <2>3. QED
    BY <2>1, <2>2
<1>6. \A p \in 1..filled[t] : new[p] = old[p]
  <2>1. \A p \in 1..filled[t] : p \in Place /\ p \notin (filled[t] + 1)..(filled[t] + n)
    BY <1>1, <1>4 DEF Place
  <2>2. QED
    BY <2>1
<1>7. mem'[rx[t]] = new /\ filled'[t] = filled[t] + n
  BY <1>1, <1>2, <1>3
<1> HIDE DEF old, new
<1>8. Held(t) = SubSeq(old, 1, filled[t]) /\ Held(t)' = SubSeq(new, 1, filled[t] + n)
  <2>1. Held(t) = SubSeq(old, 1, filled[t])
    BY <1>2 DEF Held, Slice, old
  <2>2. Held(t)' = SubSeq(mem'[rx'[t]], 1, filled'[t])
    BY <1>2 DEF Held, Slice
  <2>3. mem'[rx'[t]] = new
    BY <1>7
  <2>4. filled'[t] = filled[t] + n
    BY <1>7
  <2>5. Held(t)' = SubSeq(new, 1, filled[t] + n)
    BY <2>2, <2>3, <2>4, Zenon
  <2>6. QED
    BY <2>1, <2>5, Zenon
<1>9. Len(Held(t)) = filled[t] /\ Len(Held(t)') = filled[t] + n /\ Held(t)' \in Seq(Cell)
  <2>1. Len(SubSeq(old, 1, filled[t])) = filled[t]
    BY <1>4, <1>5, FrontIs
  <2>2. /\ Len(SubSeq(new, 1, filled[t] + n)) = filled[t] + n
        /\ SubSeq(new, 1, filled[t] + n) \in Seq(Cell)
    BY <1>4, <1>5, FrontIs
  <2>3. QED
    BY <1>8, <2>1, <2>2, Zenon
<1>10. SubSeq(Held(t)', 1, Len(Held(t))) = Held(t)
  BY <1>4, <1>5, <1>6, <1>8, <1>9, FrontStays
<1>11. Space(t) = Size /\ Space(t) > 0
  BY FirmwareAssumption DEF Space
<1>12. Grown(t)
  BY <1>4, <1>9, <1>10, <1>11 DEF Grown
<1>13. /\ \A b \in Pool!Index : b # rx[t] => mem'[b] = mem[b]
       /\ \A u \in Task : u # t => filled'[u] = filled[u]
  BY <1>1, <1>3
<1>14. QED
  BY <1>4, <1>9, <1>12, <1>13

LEMMA SliceOfReadOn ==
    ASSUME Inv, NEW n \in 1..(Size - filled["uart"]), ReadOn(n), NEW u \in Task
    PROVE  Kept(u) \/ Fills(u)
<1>1. /\ stage["uart"] = "read" /\ Receive("uart", n) /\ "uart" \in Task
      /\ UNCHANGED <<stage, rx, ok>>
      /\ filled["uart"] \in 0..Size
  BY DEF ReadOn, At, bufferVars, Task, Inv, Types
<1>2. /\ Grown("uart")
      /\ \A b \in Pool!Index : b # rx["uart"] => mem'[b] = mem[b]
      /\ \A v \in Task : v # "uart" => filled'[v] = filled[v]
  <2>1. n \in 0..(Size - filled["uart"])
    BY <1>1, FirmwareAssumption
  <2>2. QED
    BY <1>1, <2>1, SliceOfReceive
<1>3. CASE u = "uart"
  BY <1>1, <1>2, <1>3 DEF Fills, Space
<1>4. CASE u # "uart"
  <2>1. UNCHANGED <<filled[u], ok[u]>>
    BY <1>1, <1>2, <1>4
  <2>2. "read" \in Looping /\ stage' = [stage EXCEPT !["uart"] = "read"]
    BY <1>1 DEF Looping, Inv, Types
  <2>3. QED
    BY <1>1, <1>2, <1>4, <2>1, <2>2, SliceOfOther
<1>5. QED
  BY <1>3, <1>4

LEMMA SliceOfReadEnds ==
    ASSUME Inv, NEW t \in Task, NEW n \in 0..(Size - filled[t]), NEW success \in BOOLEAN,
           ReadEnds(t, n, success), NEW u \in Task
    PROVE  Kept(u) \/ Succeeds(u) \/ Fails(u)
<1>1. /\ stage[t] = "read" /\ Receive(t, n)
      /\ success => n > 0
      /\ t = "uart" /\ ~success => n = 0 /\ filled[t] = Size
      /\ stage' = [stage EXCEPT ![t] = "compose"]
      /\ ok' = [ok EXCEPT ![t] = success]
      /\ UNCHANGED rx
  BY DEF ReadEnds, At, Goto, bufferVars
<1>2. /\ Len(Held(t)) = filled[t] /\ Len(Held(t)') = filled[t] + n
      /\ filled[t] \in 0..Size /\ filled[t] + n \in 0..Size
      /\ Grown(t) /\ Held(t)' \in Seq(Cell)
      /\ \A b \in Pool!Index : b # rx[t] => mem'[b] = mem[b]
      /\ \A v \in Task : v # t => filled'[v] = filled[v]
  BY <1>1, SliceOfReceive
<1>3. stage[t] \in Looping /\ "compose" \in Looping /\ ok \in [Task -> BOOLEAN]
  BY <1>1 DEF Looping, Inv, Types
<1>4. CASE u = t
  <2>1. stage'[t] = "compose" /\ ok'[t] = success
    BY <1>1, <1>3, StageTypes DEF Inv
  <2>2. Space(t) = Size /\ Space(t)' = 0 /\ Size \in Nat
    BY <1>1, <2>1, FirmwareAssumption DEF Space
  <2>3. CASE success
    <3>1. filled[t] + n > 0
      BY <1>1, <1>2, <2>2, <2>3
    <3>2. Held(t)' # <<>>
      BY <1>2, <3>1
    <3>3. QED
      BY <1>2, <1>4, <2>1, <2>2, <2>3, <3>2 DEF Succeeds
  <2>4. CASE ~success
    <3>1. ASSUME t = "uart"
          PROVE  Held(t)' = Held(t) /\ Len(Held(t)) = Space(t)
      <4>1. n = 0 /\ filled[t] = Size
        BY <1>1, <2>4, <3>1
      <4>2. SubSeq(Held(t)', 1, Len(Held(t)')) = Held(t)
        <5>1. Len(Held(t)') = Len(Held(t))
          BY <1>2, <4>1
        <5>2. QED
          BY <1>2, <5>1 DEF Grown
      <4>3. SubSeq(Held(t)', 1, Len(Held(t)')) = Held(t)'
        BY <1>2, SubSeqFull
      <4>4. QED
        BY <1>2, <2>2, <4>1, <4>2, <4>3
    <3>2. QED
      BY <1>2, <1>4, <2>1, <2>2, <2>4, <3>1 DEF Fails
  <2>5. QED
    BY <2>3, <2>4
<1>5. CASE u # t
  <2>1. UNCHANGED <<filled[u], ok[u]>>
    BY <1>1, <1>2, <1>3, <1>5
  <2>2. QED
    BY <1>1, <1>2, <1>3, <1>5, <2>1, SliceOfOther
<1>6. QED
  BY <1>4, <1>5

\* Composing and writing leave both slices alone.
LEMMA SliceOfReport ==
    ASSUME Inv, NEW t \in Task,
           Compose(t) \/ Composed(t) \/ \E n \in 0..Size : Write(t, n),
           NEW u \in Task
    PROVE  Kept(u)
<1>1. Types /\ Stations /\ Apart
  BY DEF Inv
<1>2. stage[t] \in {"compose", "write"} /\ UNCHANGED <<rx, filled, ok>>
  BY DEF Compose, Composed, Write, At, bufferVars, readVars
<1>3. PICK s \in {"compose", "write", "loop"} : stage' = [stage EXCEPT ![t] = s]
  <2>1. CASE Compose(t)
    <3>1. stage[t] = "compose" /\ stage' = stage
      BY <2>1 DEF Compose, At
    <3>2. stage' = [stage EXCEPT ![t] = "compose"]
      BY <1>1, <3>1 DEF Types
    <3>3. QED
      BY <3>2
  <2>2. CASE Composed(t)
    BY <2>2 DEF Composed, Goto
  <2>3. CASE \E n \in 0..Size : Write(t, n)
    <3>1. stage' = [stage EXCEPT ![t] = "loop"]
      BY <2>3 DEF Write, Goto
    <3>2. QED
      BY <3>1
  <2>4. QED
    BY <2>1, <2>2, <2>3
<1>4. stage[t] \in Looping /\ s \in Looping
  BY <1>2 DEF Looping
<1>5. rx[t] # tx[t] /\ rx[t] \in Pool!Index
  BY <1>1, <1>4, TwoBuffers
<1>6. \A b \in Pool!Index : b # tx[t] => mem'[b] = mem[b]
  <2>1. CASE Compose(t)
    <3>1. PICK src : write_all(t, src)
      BY <2>1 DEF Compose
    <3>2. mem' = mem \/ \E cells : mem' = [mem EXCEPT ![tx[t]] = cells]
      BY <3>1 DEF write_all, Put
    <3>3. QED
      BY <1>1, <3>2 DEF Types
  <2>2. CASE Composed(t) \/ \E n \in 0..Size : Write(t, n)
    BY <2>2 DEF Composed, Write
  <2>3. QED
    BY <2>1, <2>2
<1>7. CASE u = t
  <2>1. stage'[t] = s
    BY <1>1, <1>3, <1>4, StageTypes
  <2>2. Space(t) = 0 /\ Space(t)' = 0
    BY <1>2, <2>1 DEF Space
  <2>3. QED
    BY <1>2, <1>5, <1>6, <1>7, <2>2, HeldKept
<1>8. CASE u # t
  BY <1>2, <1>3, <1>4, <1>6, <1>8, SliceOfOther
<1>9. QED
  BY <1>7, <1>8

\* Every step of the tasks is one of each slice.
LEMMA SliceOfStep ==
    ASSUME Inv, Unread, [Next]_vars, NEW u \in Task
    PROVE  SliceStep(u)
<1>1. CASE UNCHANGED vars \/ \E t \in Task : Pending(t)
  <2>1. UNCHANGED <<stage, mem, rx, filled, ok>>
    BY <1>1 DEF vars, Pending, bufferVars, readVars
  <2>2. QED
    BY <2>1, HeldKept DEF SliceStep, Space
<1>2. ASSUME NEW t \in Task, Begin(t)
      PROVE  SliceStep(u)
  BY <1>2, SliceOfBegin DEF SliceStep
<1>3. ASSUME NEW t \in Task, StartRound(t)
      PROVE  SliceStep(u)
  BY <1>3, SliceOfStartRound DEF SliceStep
<1>4. ASSUME NEW t \in Task, NEW n \in 0..(Size - filled[t]), NEW success \in BOOLEAN,
             ReadEnds(t, n, success)
      PROVE  SliceStep(u)
  BY <1>4, SliceOfReadEnds DEF SliceStep
<1>5. ASSUME NEW n \in 1..(Size - filled["uart"]), ReadOn(n)
      PROVE  SliceStep(u)
  BY <1>5, SliceOfReadOn DEF SliceStep
<1>6. ASSUME NEW t \in Task, Compose(t) \/ Composed(t) \/ \E n \in 0..Size : Write(t, n)
      PROVE  SliceStep(u)
  BY <1>6, SliceOfReport DEF SliceStep
<1>7. QED
  BY <1>1, <1>2, <1>3, <1>4, <1>5, <1>6 DEF Next

LEMMA UnreadStep ==
    ASSUME Inv, Unread, [Next]_vars
    PROVE  Unread'
<1>1. /\ filled \in [Task -> 0..Size]
      /\ stage \in [Task -> {"ask rx", "own rx", "ask tx", "own tx", "greet",
                             "delay"} \cup Looping]
  BY DEF Inv, Types
<1>2. CASE UNCHANGED <<stage, filled>>
  BY <1>2 DEF Unread
<1>3. ASSUME NEW t \in Task, Begin(t)
      PROVE  Unread'
  <2>1. /\ filled' = filled /\ stage[t] \notin Looping
        /\ stage' = [stage EXCEPT ![t] = Following(t, stage[t])]
    BY <1>3 DEF Begin, Resume, AskBuffer, IntoSlice, IntoFlatBuffer, At, Goto, readVars,
                Looping
  <2>2. QED
    BY <1>1, <2>1 DEF Unread
<1>4. ASSUME NEW t \in Task, NEW s \in Looping, stage[t] \in Looping,
             stage' = [stage EXCEPT ![t] = s],
             \A u \in Task : u # t => filled'[u] = filled[u]
      PROVE  Unread'
  BY <1>1, <1>4 DEF Unread
<1>5. {"loop", "read", "compose", "write"} = Looping
  BY DEF Looping
<1>6. ASSUME NEW t \in Task, StartRound(t)
      PROVE  Unread'
  BY <1>1, <1>4, <1>5, <1>6 DEF StartRound, At, Goto
<1>7. ASSUME NEW t \in Task, NEW n \in 0..(Size - filled[t]), NEW success \in BOOLEAN,
             ReadEnds(t, n, success)
      PROVE  Unread'
  BY <1>1, <1>4, <1>5, <1>7 DEF ReadEnds, Receive, At, Goto
<1>8. ASSUME NEW n \in 1..(Size - filled["uart"]), ReadOn(n)
      PROVE  Unread'
  <2>1. /\ stage["uart"] = "read" /\ "uart" \in Task /\ stage' = stage
        /\ filled' = [filled EXCEPT !["uart"] = filled["uart"] + n]
    BY <1>8 DEF ReadOn, Receive, At, Task
  <2>2. QED
    BY <1>1, <1>5, <2>1 DEF Unread
<1>9. ASSUME NEW t \in Task, Composed(t) \/ \E n \in 0..Size : Write(t, n)
      PROVE  Unread'
  <2>1. stage[t] \in Looping /\ filled' = filled
    BY <1>5, <1>9 DEF Composed, Write, At, readVars
  <2>2. \E s \in Looping : stage' = [stage EXCEPT ![t] = s]
    BY <1>5, <1>9 DEF Composed, Write, Goto
  <2>3. QED
    BY <1>4, <2>1, <2>2
<1>10. ASSUME \/ UNCHANGED vars
              \/ \E t \in Task : Pending(t) \/ Compose(t)
       PROVE  UNCHANGED <<stage, filled>>
  BY <1>10 DEF vars, readVars, Pending, Compose
<1>11. QED
  BY <1>2, <1>3, <1>6, <1>7, <1>8, <1>9, <1>10 DEF Next

LEMMA UnreadInvariance == Spec => []Unread
<1>1. Init => Unread
  BY DEF Init, Unread
<1>2. Inv /\ Unread /\ [Next]_vars => Unread'
  BY UnreadStep
<1>3. QED
  BY Invariance, <1>1, <1>2, PTL DEF Spec

\* What the drivers promise their callers stays true in the hands of the tasks,
\* for every size of pool and buffers: a slice, which the pool counts as free,
\* is filled from its front and keeps what was read until the next read begins.
THEOREM SlicesUndisturbed == Spec => SlicesKept
<1>1. Init => UsbRead!Init /\ UartRead!Init
  BY DEF Init, Space, Held, Stages, Task, UsbRead!Init, UartRead!Init
<1>2. ASSUME Inv, Unread, [Next]_vars
      PROVE  [UsbRead!Next]_(UsbRead!vars) /\ [UartRead!Next]_(UartRead!vars)
  <2>1. SliceStep("usb") /\ SliceStep("uart")
    BY <1>2, SliceOfStep DEF Task
  <2>2. SliceStep("usb") => [UsbRead!Next]_(UsbRead!vars)
    BY DEF SliceStep, Kept, Begins, Grown, Fills, Succeeds, Fails, UsbRead!Next,
           UsbRead!vars, UsbRead!Begin, UsbRead!Grows, UsbRead!Fill, UsbRead!Succeed,
           UsbRead!Fail
  <2>3. SliceStep("uart") => [UartRead!Next]_(UartRead!vars)
    BY DEF SliceStep, Kept, Begins, Grown, Fills, Succeeds, Fails, UartRead!Next,
           UartRead!vars, UartRead!Begin, UartRead!Grows, UartRead!Fill,
           UartRead!Succeed, UartRead!Fail
  <2>4. QED
    BY <2>1, <2>2, <2>3
<1>3. QED
  BY Invariance, UnreadInvariance, <1>1, <1>2, PTL
     DEF Spec, SlicesKept, UsbRead!Spec, UartRead!Spec
=============================================================================
