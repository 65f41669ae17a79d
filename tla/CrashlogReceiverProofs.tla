----------------------- MODULE CrashlogReceiverProofs -----------------------
(***************************************************************************)
(* Proofs about CrashlogReceiver, for every set of names, any number of    *)
(* files and every length of the notification queue.                       *)
(*                                                                         *)
(* The properties relate what the goroutine has done to what is in the     *)
(* directory, and the link between the two are the notifications still in  *)
(* the queue: IInv says which notifications stand for a file not emitted   *)
(* yet, for a name still to be pruned, and for a second record allowed.    *)
(***************************************************************************)
EXTENDS CrashlogReceiver, FiniteSetTheorems, TLAPS

(* The program counters of Start(), Shutdown() and the goroutine.          *)
ControlInv ==
  /\ owner = "new" <=> run = "none"
  /\ owner = "new" => processedFiles = {} /\ events = <<>>
  /\ owner = "down" => run = "returned"
  /\ scanning => run \in {"scan", "stat", "read", "consume"}
  /\ toScan # {} => scanning
  /\ run \in {"stat", "read", "consume"} => path \in Names
  /\ run = "read" => path \notin processedFiles
  /\ Len(made) <= MaxFiles
  /\ \A g \in 1..MaxFiles : g > Len(made) => emitted[g] = 0

(* No notification that the goroutine depends on was lost.                 *)
Following == Watched /\ ~overflowed

(* A processed name without a file will be pruned.                         *)
PruneInv ==
  Following =>
    \A n \in processedFiles : dir[n] = 0 => EventsAt(events, "remove", n) # {}

(* The file under a name is looked at sooner or later.                     *)
InHand(n) ==
  \/ run \in {"none", "readdir"} \/ n \in toScan
  \/ path = n /\ run \in {"stat", "read"}
  \/ run = "consume" /\ body = dir[n]

RemovedThenCreated(n) ==
  \E i \in EventsAt(events, "remove", n), j \in EventsAt(events, "create", n) : i < j

(* A name with an eligible file that is still to be emitted.               *)
Due(n) == dir[n] # 0 /\ ~made[dir[n]].over /\ Missed(dir[n])

(* Its file is in hand or in the queue; and if the name is processed,      *)
(* because of an earlier file, it is pruned before the file is looked at.  *)
WillBeEmitted(n) ==
  /\ InHand(n) \/ EventsAt(events, "create", n) # {}
  /\ n \in processedFiles => (run = "consume" /\ body = dir[n]) \/ RemovedThenCreated(n)

EmitInv ==
  ~overflowed /\ owner \in {"new", "started"} =>
    \A n \in Names : Due(n) => WillBeEmitted(n)

(* The records that files of name n may still be given: one for each       *)
(* notification that prunes the name, and one unless it is processed.      *)
AllowedBy(queue, processed, n) ==
  Cardinality(EventsAt(queue, "remove", n)) + IF n \in processed THEN 0 ELSE 1

Allowed(n) == AllowedBy(events, processedFiles, n)

(* A file has been given no more than its removes allow; while it is the   *)
(* one under its name, what may still come is counted in.                  *)
Consumed(g) == IF run = "consume" /\ body = g THEN 1 ELSE 0

DuplicateInv ==
  \A g \in Files :
    /\ emitted[g] + Consumed(g) <= 1 + made[g].stale
    /\ dir[made[g].name] = g =>
         emitted[g] + Consumed(g) + Allowed(made[g].name) <= 1 + made[g].stale

IInv == TypeOK /\ ControlInv /\ PruneInv /\ EmitInv /\ DuplicateInv

-----------------------------------------------------------------------------
(* Facts about the queue of notifications *)

(* Head and tail of a non-empty sequence.                                  *)
LEMMA NonEmptySeq ==
  ASSUME NEW S, NEW s \in Seq(S), s # <<>>
  PROVE  /\ Len(s) \in Nat /\ Len(s) >= 1
         /\ Head(s) = s[1] /\ Head(s) \in S
         /\ Tail(s) \in Seq(S) /\ Len(Tail(s)) = Len(s) - 1
         /\ \A i \in 1..Len(s) - 1 : Tail(s)[i] = s[i + 1]
  OBVIOUS

(* Appending adds one element at the end and moves none.                   *)
LEMMA AppendSeq ==
  ASSUME NEW S, NEW s \in Seq(S), NEW e \in S
  PROVE  /\ Append(s, e) \in Seq(S)
         /\ Len(s) \in Nat /\ Len(Append(s, e)) = Len(s) + 1
         /\ \A i \in 1..Len(s) : Append(s, e)[i] = s[i]
         /\ Append(s, e)[Len(s) + 1] = e
  OBVIOUS

(* A notification that is appended is the last one.                        *)
LEMMA EventsAtAppend ==
  ASSUME NEW s \in Seq(Event), NEW e \in Event, NEW op, NEW n
  PROVE  /\ EventsAt(s, op, n) \subseteq EventsAt(Append(s, e), op, n)
         /\ EventsAt(Append(s, e), op, n) \subseteq EventsAt(s, op, n) \cup {Len(s) + 1}
         /\ Len(s) + 1 \in EventsAt(Append(s, e), op, n) <=> e.op = op /\ e.name = n
<1> DEFINE t == Append(s, e)
<1>1. /\ Len(s) \in Nat /\ Len(t) = Len(s) + 1 /\ t[Len(s) + 1] = e
      /\ \A i \in 1..Len(s) : t[i] = s[i]
  BY AppendSeq
<1>2. 1..Len(t) = 1..Len(s) \cup {Len(s) + 1} /\ Len(s) + 1 \in 1..Len(t)
  BY <1>1
<1> HIDE DEF t
<1>3. EventsAt(s, op, n) \subseteq EventsAt(t, op, n)
  BY <1>1, <1>2 DEF EventsAt
<1>4. EventsAt(t, op, n) \subseteq EventsAt(s, op, n) \cup {Len(s) + 1}
  BY <1>1, <1>2 DEF EventsAt
<1>5. Len(s) + 1 \in EventsAt(t, op, n) <=> e.op = op /\ e.name = n
  BY <1>1, <1>2 DEF EventsAt
<1> QED BY <1>3, <1>4, <1>5 DEF t

(* Taking the first notification moves the others up by one.               *)
LEMMA EventsAtTail ==
  ASSUME NEW s \in Seq(Event), s # <<>>, NEW op, NEW n
  PROVE  /\ \A i \in EventsAt(s, op, n) : i # 1 => i - 1 \in EventsAt(Tail(s), op, n)
         /\ \A i \in EventsAt(Tail(s), op, n) : i + 1 \in EventsAt(s, op, n)
         /\ 1 \in EventsAt(s, op, n) <=> Head(s).op = op /\ Head(s).name = n
<1>1. /\ Len(s) \in Nat /\ Len(s) >= 1 /\ Head(s) = s[1] /\ Len(Tail(s)) = Len(s) - 1
      /\ \A i \in 1..Len(s) - 1 : Tail(s)[i] = s[i + 1]
  BY NonEmptySeq
<1>2. ASSUME NEW i \in EventsAt(s, op, n), i # 1 PROVE i - 1 \in EventsAt(Tail(s), op, n)
  <2>1. i \in 1..Len(s) /\ s[i].op = op /\ s[i].name = n
    BY DEF EventsAt
  <2>2. i - 1 \in 1..Len(s) - 1 /\ (i - 1) + 1 = i
    BY <1>1, <1>2, <2>1
  <2>3. Tail(s)[i - 1] = s[i]
    BY <1>1, <2>2
  <2> QED BY <1>1, <2>1, <2>2, <2>3 DEF EventsAt
<1>3. ASSUME NEW i \in EventsAt(Tail(s), op, n) PROVE i + 1 \in EventsAt(s, op, n)
  <2>1. i \in 1..Len(s) - 1 /\ Tail(s)[i].op = op /\ Tail(s)[i].name = n
    BY <1>1 DEF EventsAt
  <2> QED BY <1>1, <2>1 DEF EventsAt
<1>4. 1 \in EventsAt(s, op, n) <=> Head(s).op = op /\ Head(s).name = n
  BY <1>1 DEF EventsAt
<1> QED BY <1>2, <1>3, <1>4

(* Notifications can be counted.                                           *)
LEMMA EventsAtFinite ==
  ASSUME NEW s \in Seq(Event), NEW op, NEW n
  PROVE  /\ IsFiniteSet(EventsAt(s, op, n))
         /\ EventsAt(s, op, n) \subseteq 1..Len(s) /\ Len(s) \in Nat
         /\ Cardinality(EventsAt(s, op, n)) \in Nat
<1>1. Len(s) \in Nat /\ EventsAt(s, op, n) \subseteq 1..Len(s)
  BY DEF EventsAt
<1>2. IsFiniteSet(1..Len(s))
  BY <1>1, FS_Interval
<1>3. IsFiniteSet(EventsAt(s, op, n))
  BY <1>1, <1>2, FS_Subset
<1> QED BY <1>1, <1>3, FS_CardinalityType

(* One more of another kind changes no number, one of this kind adds one.  *)
LEMMA CountAppend ==
  ASSUME NEW s \in Seq(Event), NEW e \in Event, NEW op, NEW n
  PROVE  Cardinality(EventsAt(Append(s, e), op, n)) =
           Cardinality(EventsAt(s, op, n)) + IF e.op = op /\ e.name = n THEN 1 ELSE 0
<1>1. IsFiniteSet(EventsAt(s, op, n)) /\ Len(s) + 1 \notin EventsAt(s, op, n)
      /\ Cardinality(EventsAt(s, op, n)) \in Nat
  BY EventsAtFinite
<1>2. CASE e.op = op /\ e.name = n
  <2>1. EventsAt(Append(s, e), op, n) = EventsAt(s, op, n) \cup {Len(s) + 1}
    BY <1>2, EventsAtAppend
  <2>2. Cardinality(EventsAt(s, op, n) \cup {Len(s) + 1}) = Cardinality(EventsAt(s, op, n)) + 1
    BY <1>1, FS_AddElement, ZenonT(20)
  <2> QED BY <1>2, <2>1, <2>2
<1>3. CASE ~(e.op = op /\ e.name = n)
  <2>1. EventsAt(Append(s, e), op, n) = EventsAt(s, op, n)
    <3>1. ~(Len(s) + 1 \in EventsAt(Append(s, e), op, n))
      BY <1>3, EventsAtAppend
    <3>2. /\ EventsAt(s, op, n) \subseteq EventsAt(Append(s, e), op, n)
          /\ EventsAt(Append(s, e), op, n) \subseteq EventsAt(s, op, n) \cup {Len(s) + 1}
      BY EventsAtAppend
    <3> QED BY <3>1, <3>2, Zenon
  <2> QED BY <1>1, <1>3, <2>1
<1> QED BY <1>2, <1>3

(* Taking the first notification leaves no more of any kind, and one less  *)
(* of its own.                                                             *)
LEMMA CountTail ==
  ASSUME NEW s \in Seq(Event), s # <<>>, NEW op, NEW n
  PROVE  Cardinality(EventsAt(Tail(s), op, n)) +
           (IF Head(s).op = op /\ Head(s).name = n THEN 1 ELSE 0)
           <= Cardinality(EventsAt(s, op, n))
<1> DEFINE S == EventsAt(Tail(s), op, n)
           T == EventsAt(s, op, n) \ {1}
           f == [i \in S |-> i + 1]
<1>1. /\ IsFiniteSet(EventsAt(s, op, n)) /\ Cardinality(EventsAt(s, op, n)) \in Nat
      /\ S \subseteq 1..Len(Tail(s)) /\ Len(Tail(s)) \in Nat /\ Cardinality(S) \in Nat
  BY NonEmptySeq, EventsAtFinite
<1>2. IsFiniteSet(T) /\ Cardinality(T) = IF 1 \in EventsAt(s, op, n)
                                         THEN Cardinality(EventsAt(s, op, n)) - 1
                                         ELSE Cardinality(EventsAt(s, op, n))
  BY <1>1, FS_RemoveElement
<1>3. \A i \in S : i \in Nat /\ i + 1 \in T
  BY <1>1, EventsAtTail
<1> HIDE DEF S, T
<1>4. f \in Injection(S, T)
  BY <1>3 DEF Injection, IsInjective
<1>5. Cardinality(S) <= Cardinality(T)
  BY <1>2, <1>4, FS_Injection
<1>6. 1 \in EventsAt(s, op, n) <=> Head(s).op = op /\ Head(s).name = n
  BY EventsAtTail
<1> QED BY <1>1, <1>2, <1>5, <1>6 DEF S

(* Notify(): the notification is appended, or the queue overflows; in both *)
(* cases no other remove is added.                                         *)
LEMMA NotifyEvents ==
  ASSUME events \in Seq(Event), overflowed \in BOOLEAN,
         NEW op \in {"create", "remove"}, NEW n \in Names, Notify(op, n)
  PROVE  /\ events' \in Seq(Event) /\ overflowed' \in BOOLEAN
         /\ overflowed => overflowed'
         /\ ~Watched => UNCHANGED <<events, overflowed>>
         /\ Watched /\ ~overflowed' => events' = Append(events, [op |-> op, name |-> n])
         /\ \A m \in Names :
              Cardinality(EventsAt(events', "remove", m)) <=
                Cardinality(EventsAt(events, "remove", m))
                  + IF op = "remove" /\ m = n THEN 1 ELSE 0
<1> DEFINE e == [op |-> op, name |-> n]
           o == [op |-> "overflow", name |-> n]
<1>1. /\ e \in Event /\ o \in Event /\ e.op = op /\ e.name = n
      /\ o.op = "overflow" /\ o.name = n
  BY DEF Event
<1>2. Append(events, e) \in Seq(Event) /\ Append(events, o) \in Seq(Event)
  BY <1>1, AppendSeq
<1> HIDE DEF e, o
<1>3. \/ ~Watched /\ UNCHANGED <<events, overflowed>>
      \/ Watched /\ events' = Append(events, e) /\ overflowed' = overflowed
      \/ Watched /\ (events' = events \/ events' = Append(events, o)) /\ overflowed' = TRUE
  BY DEF Notify, e, o
<1>4. ASSUME NEW m \in Names
      PROVE  /\ Cardinality(EventsAt(events, "remove", m)) \in Nat
             /\ Cardinality(EventsAt(Append(events, e), "remove", m)) =
                  Cardinality(EventsAt(events, "remove", m))
                    + IF op = "remove" /\ m = n THEN 1 ELSE 0
             /\ Cardinality(EventsAt(Append(events, o), "remove", m)) =
                  Cardinality(EventsAt(events, "remove", m))
  <2>1. Cardinality(EventsAt(events, "remove", m)) \in Nat
    BY EventsAtFinite
  <2>2. Cardinality(EventsAt(Append(events, e), "remove", m)) =
          Cardinality(EventsAt(events, "remove", m))
            + IF e.op = "remove" /\ e.name = m THEN 1 ELSE 0
    BY <1>1, CountAppend
  <2>3. Cardinality(EventsAt(Append(events, o), "remove", m)) =
          Cardinality(EventsAt(events, "remove", m))
            + IF o.op = "remove" /\ o.name = m THEN 1 ELSE 0
    BY <1>1, CountAppend
  <2> QED BY <1>1, <2>1, <2>2, <2>3
<1>5. \A m \in Names :
        Cardinality(EventsAt(events', "remove", m)) <=
          Cardinality(EventsAt(events, "remove", m))
            + IF op = "remove" /\ m = n THEN 1 ELSE 0
  <2> SUFFICES ASSUME NEW m \in Names
               PROVE  Cardinality(EventsAt(events', "remove", m)) <=
                        Cardinality(EventsAt(events, "remove", m))
                          + IF op = "remove" /\ m = n THEN 1 ELSE 0
    OBVIOUS
  <2>1. \/ events' = events \/ events' = Append(events, e) \/ events' = Append(events, o)
    BY <1>3
  <2> DEFINE k == Cardinality(EventsAt(events, "remove", m))
             x == IF op = "remove" /\ m = n THEN 1 ELSE 0
  <2>2. /\ k \in Nat /\ x \in {0, 1}
        /\ Cardinality(EventsAt(Append(events, e), "remove", m)) = k + x
        /\ Cardinality(EventsAt(Append(events, o), "remove", m)) = k
    BY <1>4
  <2>3. Cardinality(EventsAt(events', "remove", m)) \in {k, k + x}
    BY <2>1, <2>2
  <2> HIDE DEF k, x
  <2>4. Cardinality(EventsAt(events', "remove", m)) <= k + x
    BY <2>2, <2>3
  <2> QED BY <2>4 DEF k, x
<1>6. Watched /\ ~overflowed' => events' = Append(events, [op |-> op, name |-> n])
  BY <1>3 DEF e
<1> QED BY <1>2, <1>3, <1>5, <1>6

(* The record of a new file, and what it says of the file it replaces.     *)
LEMMA NewFileFacts ==
  ASSUME events \in Seq(Event), NEW n \in Names, NEW e \in BOOLEAN
  PROVE  /\ NewFile(n, e) \in File /\ NewFile(n, e).name = n
         /\ NewFile(n, e).stale = Cardinality(EventsAt(events, "remove", n))
         /\ ~NewFile(n, e).over /\ n \in processedFiles =>
              dir[n] = 0 \/ EventsAt(events, "remove", n) # {}
<1> DEFINE c == Cardinality(EventsAt(events, "remove", n))
           o == dir[n] # 0 /\ n \in processedFiles /\ EventsAt(events, "remove", n) = {}
<1>1. c \in Nat
  BY EventsAtFinite
<1>2. o \in BOOLEAN
  OBVIOUS
<1>3. NewFile(n, e) = [name |-> n, eligible |-> e, over |-> o, stale |-> c]
  BY DEF NewFile
<1>4. ~o /\ n \in processedFiles => dir[n] = 0 \/ EventsAt(events, "remove", n) # {}
  OBVIOUS
<1> HIDE DEF c, o
<1>5. /\ NewFile(n, e) \in File /\ NewFile(n, e).name = n
      /\ NewFile(n, e).stale = c /\ NewFile(n, e).over = o
  BY <1>1, <1>2, <1>3 DEF File
<1> QED BY <1>4, <1>5 DEF c

-----------------------------------------------------------------------------
(* Initial states *)

(* The receiver as it is created satisfies the invariant.                  *)
LEMMA InitIInv == Init => IInv
<1> SUFFICES ASSUME Init PROVE IInv
  OBVIOUS
<1> USE CrashlogAssumption DEF Init
<1>1. made \in Seq(File) /\ events \in Seq(Event) /\ Len(made) = 0 /\ Len(events) = 0
  OBVIOUS
<1>2. TypeOK
  <2>1. 0 \in 0..Len(made) /\ dir \in [Names -> 0..Len(made)]
    BY <1>1
  <2>2. emitted \in [1..MaxFiles -> Nat]
    OBVIOUS
  <2> QED BY <1>1, <2>1, <2>2 DEF TypeOK
<1>3. ControlInv
  BY <1>1 DEF ControlInv
<1>4. PruneInv /\ EmitInv
  BY DEF PruneInv, EmitInv, Due
<1>5. DuplicateInv
  BY <1>1 DEF DuplicateInv, Files
<1> QED BY <1>2, <1>3, <1>4, <1>5 DEF IInv

-----------------------------------------------------------------------------
(* Steps *)

(* Every step keeps the types.                                             *)
LEMMA TypeStep == TypeOK /\ ControlInv /\ [Next]_vars => TypeOK'
<1> SUFFICES ASSUME TypeOK, ControlInv, [Next]_vars PROVE TypeOK'
  OBVIOUS
<1> USE CrashlogAssumption DEF environment, history, goroutine
<1>0. /\ made \in Seq(File) /\ Len(made) \in Nat
      /\ dir \in [Names -> 0..Len(made)]
      /\ events \in Seq(Event) /\ overflowed \in BOOLEAN
      /\ emitted \in [1..MaxFiles -> Nat] /\ failed \subseteq Files
  BY DEF TypeOK
<1>1. ASSUME NEW n \in Names, PutFile(n) PROVE TypeOK'
  <2>1. PICK e \in BOOLEAN : made' = Append(made, NewFile(n, e))
    BY <1>1 DEF PutFile
  <2> DEFINE f == NewFile(n, e)
  <2>2. f \in File /\ f.name = n
    BY <1>0, NewFileFacts
  <2> HIDE DEF f
  <2>3. /\ made' \in Seq(File) /\ Len(made') = Len(made) + 1 /\ made'[Len(made) + 1] = f
        /\ \A i \in 1..Len(made) : made'[i] = made[i]
    BY <1>0, <2>1, <2>2, AppendSeq DEF f
  <2>4. dir' = [dir EXCEPT ![n] = Len(made) + 1]
    BY <1>1 DEF PutFile
  <2>5. dir' \in [Names -> 0..Len(made')]
    BY <1>0, <2>3, <2>4
  <2>6. \A m \in Names : dir'[m] # 0 => made'[dir'[m]].name = m
    <3> SUFFICES ASSUME NEW m \in Names, dir'[m] # 0 PROVE made'[dir'[m]].name = m
      OBVIOUS
    <3>1. CASE m = n
      BY <1>0, <2>2, <2>3, <2>4, <3>1
    <3>2. CASE m # n
      <4>1. dir'[m] = dir[m] /\ dir[m] \in 1..Len(made)
        BY <1>0, <2>4, <3>2
      <4> QED BY <2>3, <4>1 DEF TypeOK
    <3> QED BY <3>1, <3>2
  <2>7. events' \in Seq(Event) /\ overflowed' \in BOOLEAN
    BY <1>0, <1>1, NotifyEvents DEF PutFile
  <2>8. body \in 0..Len(made') /\ Files \subseteq Files'
    BY <1>0, <2>3 DEF TypeOK, Files
  <2>9. UNCHANGED <<owner, goroutine>>
    BY <1>1 DEF PutFile
  <2> QED BY <2>3, <2>5, <2>6, <2>7, <2>8, <2>9, SMTT(60) DEF TypeOK
<1>2. ASSUME NEW n \in Names, RemoveFile(n) PROVE TypeOK'
  <2>1. dir' = [dir EXCEPT ![n] = 0] /\ UNCHANGED <<made, owner, goroutine>>
    BY <1>2 DEF RemoveFile
  <2>2. dir' \in [Names -> 0..Len(made)]
    BY <1>0, <2>1
  <2>3. \A m \in Names : dir'[m] # 0 => made'[dir'[m]].name = m
    BY <1>0, <2>1 DEF TypeOK
  <2>4. events' \in Seq(Event) /\ overflowed' \in BOOLEAN
    BY <1>0, <1>2, NotifyEvents DEF RemoveFile
  <2> QED BY <2>1, <2>2, <2>3, <2>4, SMTT(60) DEF TypeOK, Files
<1>3. CASE Start \/ ShutdownCancel \/ ShutdownClose \/ ShutdownWait
  <2>1. CASE Start
    BY <2>1 DEF TypeOK, Files, Start
  <2>2. CASE ShutdownCancel \/ ShutdownWait
    BY <2>2 DEF TypeOK, Files, ShutdownCancel, ShutdownWait
  <2>3. CASE ShutdownClose
    <3>1. events' \in Seq(Event)
      BY <2>3 DEF ShutdownClose
    <3> QED BY <2>3, <3>1 DEF TypeOK, Files, ShutdownClose
  <2> QED BY <1>3, <2>1, <2>2, <2>3
<1>4. CASE ScanReadDir
  <2>1. {dir[n] : n \in {m \in Names : dir[m] # 0}} \subseteq Files
    BY <1>0 DEF Files
  <2>2. failed' \subseteq Files
    BY <1>0, <1>4, <2>1 DEF ScanReadDir
  <2> QED BY <1>4, <2>2 DEF ScanReadDir, TypeOK, Files
<1>5. CASE ScanNext
  BY <1>5 DEF ScanNext, TypeOK, Files
<1>6. CASE ScanEnd \/ RunDone
  BY <1>6 DEF ScanEnd, RunDone, TypeOK, Files
<1>7. CASE RunCreateEvent
  <2>1. Tail(events) \in Seq(Event) /\ Head(events) \in Event
    BY <1>0, <1>7, NonEmptySeq DEF RunCreateEvent
  <2>2. Head(events).name \in Names
    BY <2>1 DEF Event
  <2> QED BY <1>7, <2>1, <2>2 DEF RunCreateEvent, TypeOK, Files
<1>8. CASE RunRemoveEvent \/ RunErrorEvent
  <2>1. Tail(events) \in Seq(Event)
    BY <1>0, <1>8, NonEmptySeq DEF RunRemoveEvent, RunErrorEvent
  <2> QED BY <1>8, <2>1 DEF RunRemoveEvent, RunErrorEvent, TypeOK, Files
<1>9. CASE HandlePath
  BY <1>0, <1>9 DEF HandlePath, Return, TypeOK, Files
<1>10. CASE ReadFile
  <2>1. path \in Names
    BY <1>10 DEF ReadFile, ControlInv
  <2>2. dir[path] \in Files
    BY <1>0, <1>10, <2>1 DEF ReadFile, Files
  <2> QED BY <1>0, <1>10, <2>1, <2>2 DEF ReadFile, TypeOK, Files
<1>11. CASE ReadFileError
  <2>1. {dir[path]} \ {0} \subseteq Files
    BY <1>0, <1>11 DEF ReadFileError, ControlInv, Files
  <2>2. failed' \subseteq Files
    BY <1>0, <1>11, <2>1 DEF ReadFileError
  <2> QED BY <1>0, <1>11, <2>2 DEF ReadFileError, Return, TypeOK, Files
<1>12. CASE ConsumeLogs
  <2>1. body \in Files /\ body \in 1..MaxFiles
    BY <1>0, <1>12 DEF ConsumeLogs, TypeOK, ControlInv, Files
  <2>2. failed' \subseteq Files
    BY <1>0, <1>12, <2>1 DEF ConsumeLogs
  <2>3. \/ emitted' = [emitted EXCEPT ![body] = @ + 1]
        \/ emitted' = emitted
    BY <1>12 DEF ConsumeLogs
  <2>4. emitted' \in [1..MaxFiles -> Nat]
    <3>1. emitted[body] + 1 \in Nat
      BY <1>0, <2>1
    <3> QED BY <1>0, <2>1, <2>3, <3>1
  <2> QED BY <1>0, <1>12, <2>2, <2>4 DEF ConsumeLogs, Return, TypeOK, Files
<1>13. CASE UNCHANGED vars
  BY <1>13 DEF vars, TypeOK, Files
<1> QED BY <1>1, <1>2, <1>3, <1>4, <1>5, <1>6, <1>7, <1>8, <1>9, <1>10, <1>11, <1>12,
           <1>13
        DEF Next, Run, Terminated

(* Every step keeps the program counters in step.                          *)
LEMMA ControlStep == TypeOK /\ ControlInv /\ [Next]_vars => ControlInv'
<1> SUFFICES ASSUME TypeOK, ControlInv, [Next]_vars PROVE ControlInv'
  OBVIOUS
<1>0. /\ made \in Seq(File) /\ Len(made) \in Nat /\ MaxFiles \in Nat
      /\ emitted \in [1..MaxFiles -> Nat] /\ body \in 0..Len(made)
      /\ run = "consume" => body \in Files
  BY CrashlogAssumption DEF TypeOK
<1> USE DEF ControlInv, environment, history, goroutine
<1>1. ASSUME NEW n \in Names, PutFile(n) PROVE ControlInv'
  <2>1. PICK e \in BOOLEAN : made' = Append(made, NewFile(n, e))
    BY <1>1 DEF PutFile
  <2>2. Len(made') = Len(made) + 1 /\ Len(made) < MaxFiles
    BY <1>0, <1>1, <2>1 DEF PutFile
  <2>3. owner = "new" => events' = events
    BY <1>1 DEF PutFile, Notify, Watched
  <2>4. UNCHANGED <<owner, goroutine>>
    BY <1>1 DEF PutFile
  <2> QED BY <1>0, <2>2, <2>3, <2>4
<1>2. ASSUME NEW n \in Names, RemoveFile(n) PROVE ControlInv'
  <2>1. owner = "new" => events' = events
    BY <1>2 DEF RemoveFile, Notify, Watched
  <2> QED BY <1>2, <2>1 DEF RemoveFile
<1>3. CASE Start \/ ShutdownCancel \/ ShutdownClose \/ ShutdownWait
  BY <1>3 DEF Start, ShutdownCancel, ShutdownClose, ShutdownWait
<1>4. CASE ScanReadDir \/ ScanNext \/ ScanEnd
  <2>0. toScan \subseteq Names
    BY DEF TypeOK
  <2>1. CASE ScanReadDir
    BY <2>1 DEF ScanReadDir
  <2>2. CASE ScanNext
    BY <2>0, <2>2 DEF ScanNext
  <2>3. CASE ScanEnd
    BY <2>3 DEF ScanEnd
  <2> QED BY <1>4, <2>1, <2>2, <2>3
<1>5. CASE RunDone \/ RunRemoveEvent \/ RunErrorEvent
  BY <1>5 DEF RunDone, RunRemoveEvent, RunErrorEvent
<1>6. CASE RunCreateEvent
  <2>1. Head(events) \in Event
    BY <1>6, NonEmptySeq DEF RunCreateEvent, TypeOK
  <2>2. Head(events).name \in Names
    BY <2>1 DEF Event
  <2> QED BY <1>6, <2>2 DEF RunCreateEvent
<1>7. CASE HandlePath
  BY <1>7 DEF HandlePath, ToBeEmitted, Return
<1>8. CASE ReadFile \/ ReadFileError
  BY <1>8 DEF ReadFile, ReadFileError, Return
<1>9. CASE ConsumeLogs
  <2>1. \A g \in 1..MaxFiles : g > Len(made) => emitted'[g] = emitted[g]
    BY <1>0, <1>9 DEF ConsumeLogs, Files
  <2> QED BY <1>9, <2>1 DEF ConsumeLogs, Return
<1>10. CASE UNCHANGED vars
  BY <1>10 DEF vars
<1> QED BY <1>1, <1>2, <1>3, <1>4, <1>5, <1>6, <1>7, <1>8, <1>9, <1>10
        DEF Next, Run, Terminated

(* Every step keeps the notifications that prune processed names.          *)
LEMMA PruneStep == TypeOK /\ ControlInv /\ PruneInv /\ [Next]_vars => PruneInv'
<1> SUFFICES ASSUME TypeOK, ControlInv, PruneInv, [Next]_vars PROVE PruneInv'
  OBVIOUS
<1>0. /\ dir \in [Names -> 0..Len(made)] /\ Len(made) \in Nat
      /\ events \in Seq(Event) /\ overflowed \in BOOLEAN /\ processedFiles \subseteq Names
  BY DEF TypeOK
<1> USE DEF environment, history, goroutine
<1>1. ASSUME NEW n \in Names, PutFile(n) PROVE PruneInv'
  <2>1. /\ dir' = [dir EXCEPT ![n] = Len(made) + 1] /\ UNCHANGED <<owner, processedFiles>>
        /\ Notify("create", n)
    BY <1>1 DEF PutFile
  <2>2. /\ overflowed => overflowed'
        /\ Watched /\ ~overflowed' => events' = Append(events, [op |-> "create", name |-> n])
    BY <1>0, <2>1, NotifyEvents
  <2>3. [op |-> "create", name |-> n] \in Event
    BY DEF Event
  <2>4. Following' => /\ Following
                      /\ \A m : EventsAt(events, "remove", m) # {} =>
                                  EventsAt(events', "remove", m) # {}
    <3> SUFFICES ASSUME Following' PROVE /\ Following
                                         /\ \A m : EventsAt(events, "remove", m) # {} =>
                                                    EventsAt(events', "remove", m) # {}
      OBVIOUS
    <3> DEFINE ev == [op |-> "create", name |-> n]
    <3>1. Following /\ events' = Append(events, ev)
      BY <1>0, <2>1, <2>2 DEF Following, Watched
    <3>2. ev \in Event
      BY <2>3
    <3> HIDE DEF ev
    <3>3. \A m : EventsAt(events, "remove", m) \subseteq EventsAt(Append(events, ev), "remove", m)
      BY <1>0, <3>2, EventsAtAppend
    <3>4. \A m : EventsAt(events, "remove", m) \subseteq EventsAt(events', "remove", m)
      BY <3>1, <3>3
    <3> QED BY <3>1, <3>4
  <2>5. \A m \in Names : dir'[m] = 0 => dir[m] = 0
    BY <1>0, <2>1
  <2> QED BY <1>0, <2>1, <2>4, <2>5 DEF PruneInv
<1>2. ASSUME NEW n \in Names, RemoveFile(n) PROVE PruneInv'
  <2>1. /\ dir' = [dir EXCEPT ![n] = 0] /\ UNCHANGED <<owner, processedFiles>>
        /\ Notify("remove", n)
    BY <1>2 DEF RemoveFile
  <2>2. /\ overflowed => overflowed'
        /\ Watched /\ ~overflowed' => events' = Append(events, [op |-> "remove", name |-> n])
    BY <1>0, <2>1, NotifyEvents
  <2>3. /\ [op |-> "remove", name |-> n] \in Event
        /\ [op |-> "remove", name |-> n].op = "remove"
        /\ [op |-> "remove", name |-> n].name = n
    BY DEF Event
  <2>4. Following' => /\ Following
                      /\ \A m : EventsAt(events, "remove", m) # {} =>
                                  EventsAt(events', "remove", m) # {}
                      /\ EventsAt(events', "remove", n) # {}
    <3> SUFFICES ASSUME Following' PROVE /\ Following
                                         /\ \A m : EventsAt(events, "remove", m) # {} =>
                                                    EventsAt(events', "remove", m) # {}
                                         /\ EventsAt(events', "remove", n) # {}
      OBVIOUS
    <3> DEFINE ev == [op |-> "remove", name |-> n]
    <3>1. Following /\ events' = Append(events, ev)
      BY <1>0, <2>1, <2>2 DEF Following, Watched
    <3>2. ev \in Event /\ ev.op = "remove" /\ ev.name = n
      BY <2>3
    <3> HIDE DEF ev
    <3>3. /\ \A m : EventsAt(events, "remove", m)
                       \subseteq EventsAt(Append(events, ev), "remove", m)
          /\ Len(events) + 1 \in EventsAt(Append(events, ev), "remove", n)
      BY <1>0, <3>2, EventsAtAppend
    <3>4. /\ \A m : EventsAt(events, "remove", m) \subseteq EventsAt(events', "remove", m)
          /\ EventsAt(events', "remove", n) # {}
      BY <3>1, <3>3
    <3> QED BY <3>1, <3>4
  <2>5. \A m \in Names : dir'[m] = 0 => m = n \/ dir[m] = 0
    BY <1>0, <2>1
  <2> QED BY <1>0, <2>1, <2>4, <2>5 DEF PruneInv
<1>3. CASE /\ UNCHANGED <<dir, events, overflowed, processedFiles>>
           /\ Following' => Following
  BY <1>3 DEF PruneInv
<1>4. CASE Start
  BY <1>4 DEF Start, PruneInv, ControlInv
<1>5. CASE ShutdownCancel \/ ShutdownWait
  BY <1>3, <1>5 DEF ShutdownCancel, ShutdownWait, Following, Watched
<1>6. CASE ShutdownClose
  BY <1>6 DEF ShutdownClose, PruneInv, Following, Watched
<1>7. CASE \/ ScanReadDir \/ ScanNext \/ ScanEnd \/ RunDone \/ HandlePath
           \/ ReadFileError \/ ConsumeLogs
  BY <1>3, <1>7 DEF Following, Watched, ScanReadDir, ScanNext, ScanEnd, RunDone, HandlePath,
                    ReadFileError, ConsumeLogs
<1>8. CASE RunCreateEvent \/ RunRemoveEvent \/ RunErrorEvent
  <2>1. /\ events # <<>> /\ events' = Tail(events) /\ UNCHANGED <<dir, overflowed, owner>>
        /\ \/ Head(events).op = "remove" /\ processedFiles' = processedFiles \ {Head(events).name}
           \/ Head(events).op # "remove" /\ processedFiles' = processedFiles
    BY <1>8 DEF RunCreateEvent, RunRemoveEvent, RunErrorEvent
  <2>2. ASSUME NEW n \in processedFiles', EventsAt(events, "remove", n) # {}
        PROVE  EventsAt(events', "remove", n) # {}
    <3>1. PICK i \in EventsAt(events, "remove", n) : TRUE
      BY <2>2
    <3>2. i # 1
      BY <1>0, <2>1, <2>2, EventsAtTail
    <3> QED BY <1>0, <2>1, <3>1, <3>2, EventsAtTail
  <2> QED BY <2>1, <2>2 DEF PruneInv, Following, Watched
<1>9. CASE ReadFile
  BY <1>9 DEF ReadFile, PruneInv, Following, Watched
<1>10. CASE UNCHANGED vars
  BY <1>3, <1>10 DEF vars, Following, Watched
<1> QED BY <1>1, <1>2, <1>4, <1>5, <1>6, <1>7, <1>8, <1>9, <1>10
        DEF Next, Run, Terminated

(* A notification of a name is still there after one of another name, or   *)
(* of another kind, was taken.                                             *)
LEMMA StillThere ==
  ASSUME events \in Seq(Event), events # <<>>, events' = Tail(events), NEW n
  PROVE  /\ EventsAt(events, "create", n) # {} =>
              Head(events) = [op |-> "create", name |-> n] \/ EventsAt(events', "create", n) # {}
         /\ RemovedThenCreated(n) =>
              Head(events) = [op |-> "remove", name |-> n] \/ RemovedThenCreated(n)'
<1>1. Head(events) \in Event
  BY NonEmptySeq
<1>2. ASSUME NEW op, Head(events).op = op, Head(events).name = n
      PROVE  Head(events) = [op |-> op, name |-> n]
  BY <1>1, <1>2 DEF Event
<1>3. ASSUME NEW i \in EventsAt(events, "create", n), Head(events) # [op |-> "create", name |-> n]
      PROVE  EventsAt(events', "create", n) # {}
  <2>1. i # 1
    BY <1>2, <1>3, EventsAtTail
  <2> QED BY <2>1, EventsAtTail
<1>4. ASSUME NEW i \in EventsAt(events, "remove", n), NEW j \in EventsAt(events, "create", n),
             i < j, Head(events) # [op |-> "remove", name |-> n]
      PROVE  RemovedThenCreated(n)'
  <2>1. i # 1
    BY <1>2, <1>4, EventsAtTail
  <2>2. i \in Nat /\ j \in Nat /\ i >= 1 /\ j # 1
    BY <1>4, EventsAtFinite
  <2>3. i - 1 \in EventsAt(events', "remove", n) /\ j - 1 \in EventsAt(events', "create", n)
    BY <2>1, <2>2, EventsAtTail
  <2>4. i - 1 < j - 1
    BY <1>4, <2>2
  <2> QED BY <2>3, <2>4 DEF RemovedThenCreated
<1> QED BY <1>3, <1>4 DEF RemovedThenCreated

(* A notification that is appended leaves those that are there.            *)
LEMMA StillThereAppend ==
  ASSUME events \in Seq(Event), NEW e \in Event, events' = Append(events, e), NEW n
  PROVE  /\ EventsAt(events, "create", n) # {} => EventsAt(events', "create", n) # {}
         /\ RemovedThenCreated(n) => RemovedThenCreated(n)'
<1>1. /\ EventsAt(events, "create", n) \subseteq EventsAt(events', "create", n)
      /\ EventsAt(events, "remove", n) \subseteq EventsAt(events', "remove", n)
  BY EventsAtAppend
<1> QED BY <1>1 DEF RemovedThenCreated

(* Every step keeps the files still to be emitted in hand or in the queue. *)
LEMMA EmitStep ==
  TypeOK /\ ControlInv /\ PruneInv /\ EmitInv /\ [Next]_vars => EmitInv'
<1> SUFFICES ASSUME TypeOK, ControlInv, PruneInv, EmitInv, [Next]_vars,
                    ~overflowed', owner' \in {"new", "started"},
                    NEW n \in Names, Due(n)'
             PROVE  WillBeEmitted(n)'
  BY DEF EmitInv
<1>0. /\ made \in Seq(File) /\ Len(made) \in Nat
      /\ dir \in [Names -> 0..Len(made)] /\ dir[n] \in 0..Len(made)
      /\ events \in Seq(Event) /\ overflowed \in BOOLEAN
      /\ dir[n] # 0 => made[dir[n]].name = n
  BY DEF TypeOK
<1>1. ~overflowed /\ owner \in {"new", "started"} /\ Due(n) => WillBeEmitted(n)
  BY DEF EmitInv
<1> USE DEF environment, history, goroutine
<1>2. ASSUME NEW m \in Names, PutFile(m) PROVE WillBeEmitted(n)'
  <2>1. PICK e \in BOOLEAN : made' = Append(made, NewFile(m, e))
    BY <1>2 DEF PutFile
  <2> DEFINE f == NewFile(m, e)
             ev == [op |-> "create", name |-> m]
  <2>2. /\ f \in File /\ ev \in Event /\ ev.op = "create" /\ ev.name = m
        /\ ~f.over /\ m \in processedFiles =>
             dir[m] = 0 \/ EventsAt(events, "remove", m) # {}
    BY <1>0, NewFileFacts DEF Event
  <2> HIDE DEF f
  <2>3. /\ Len(made') = Len(made) + 1 /\ made'[Len(made) + 1] = f
        /\ \A i \in 1..Len(made) : made'[i] = made[i]
    BY <1>0, <2>1, <2>2, AppendSeq DEF f
  <2>4. /\ dir' = [dir EXCEPT ![m] = Len(made) + 1] /\ UNCHANGED <<owner, goroutine>>
        /\ Notify("create", m)
    BY <1>2 DEF PutFile
  <2>5. ~overflowed /\ (owner = "started" => events' = Append(events, ev))
    BY <1>0, <2>4, NotifyEvents DEF Watched
  <2> HIDE DEF ev
  <2>6. CASE owner = "new"
    BY <2>4, <2>6 DEF ControlInv, WillBeEmitted, InHand
  <2>7. CASE owner = "started" /\ m # n
    <3>1. dir'[n] = dir[n] /\ dir[n] # 0 /\ made'[dir[n]] = made[dir[n]]
      BY <1>0, <2>3, <2>4, <2>7 DEF Due
    <3>2. Due(n)
      BY <2>4, <3>1 DEF Due, Missed
    <3>3. WillBeEmitted(n)
      BY <1>1, <2>5, <2>7, <3>2
    <3> QED BY <1>0, <2>2, <2>4, <2>5, <2>7, <3>1, <3>3, StillThereAppend
            DEF WillBeEmitted, InHand
  <2>8. CASE owner = "started" /\ m = n
    <3>1. n \in processedFiles => dir[n] = 0 \/ EventsAt(events, "remove", n) # {}
      BY <1>0, <2>2, <2>3, <2>4, <2>8 DEF Due
    <3>2. /\ Len(events) + 1 \in EventsAt(events', "create", n)
          /\ EventsAt(events, "remove", n) \subseteq EventsAt(events', "remove", n)
      <4>1. /\ ev \in Event /\ ev.op = "create" /\ ev.name = n
            /\ events' = Append(events, ev)
        BY <2>2, <2>5, <2>8 DEF ev
      <4>2. /\ EventsAt(events, "remove", n) \subseteq EventsAt(Append(events, ev), "remove", n)
            /\ Len(events) + 1 \in EventsAt(Append(events, ev), "create", n)
        BY <1>0, <4>1, EventsAtAppend
      <4> QED BY <4>1, <4>2
    <3>3. ASSUME n \in processedFiles PROVE RemovedThenCreated(n)'
      <4>1. PICK i \in EventsAt(events, "remove", n) : TRUE
        BY <2>5, <2>8, <3>1, <3>3 DEF PruneInv, Following, Watched
      <4>2. i < Len(events) + 1
        BY <1>0, <4>1, EventsAtFinite
      <4>3. i \in EventsAt(events', "remove", n)
        BY <3>2, <4>1
      <4> QED BY <3>2, <4>2, <4>3 DEF RemovedThenCreated
    <3> QED BY <2>4, <3>2, <3>3 DEF WillBeEmitted
  <2> QED BY <2>4, <2>6, <2>7, <2>8
<1>3. ASSUME NEW m \in Names, RemoveFile(m) PROVE WillBeEmitted(n)'
  <2> DEFINE ev == [op |-> "remove", name |-> m]
  <2>1. /\ dir' = [dir EXCEPT ![m] = 0] /\ UNCHANGED <<made, owner, goroutine>>
        /\ Notify("remove", m)
    BY <1>3 DEF RemoveFile
  <2>2. ~overflowed /\ (owner = "started" => events' = Append(events, ev))
    BY <1>0, <2>1, NotifyEvents DEF Watched
  <2>3. dir'[n] = dir[n] /\ Due(n)
    BY <1>0, <2>1 DEF Due, Missed
  <2>4. WillBeEmitted(n)
    BY <1>1, <2>1, <2>2, <2>3
  <2>5. CASE owner = "new"
    BY <2>1, <2>5 DEF ControlInv, WillBeEmitted, InHand
  <2>6. CASE owner = "started"
    <3>1. ev \in Event
      BY DEF Event
    <3> HIDE DEF ev
    <3> QED BY <1>0, <2>1, <2>2, <2>3, <2>4, <2>6, <3>1, StillThereAppend
            DEF WillBeEmitted, InHand
  <2> QED BY <2>1, <2>5, <2>6
<1>4. CASE Start
  BY <1>4 DEF Start, WillBeEmitted, InHand, ControlInv
<1>5. CASE ShutdownCancel \/ ShutdownClose \/ ShutdownWait
  BY <1>5 DEF ShutdownCancel, ShutdownClose, ShutdownWait
<1>6. ASSUME Run, UNCHANGED <<environment, overflowed, owner>>
      PROVE  /\ ~overflowed /\ owner \in {"new", "started"}
             /\ emitted'[dir[n]] = 0 /\ dir[n] \notin failed' /\ dir[n] # 0
             /\ dir' = dir /\ made' = made
             /\ emitted[dir[n]] = 0 /\ dir[n] \notin failed => Due(n) /\ WillBeEmitted(n)
  BY <1>1, <1>6 DEF Due, Missed
<1>7. CASE ScanReadDir
  <2>1. UNCHANGED <<environment, events, overflowed, owner, path, body, processedFiles, emitted>>
    BY <1>7 DEF ScanReadDir
  <2>2. /\ ~overflowed /\ owner \in {"new", "started"}
        /\ emitted'[dir[n]] = 0 /\ dir[n] \notin failed' /\ dir[n] # 0
        /\ dir' = dir /\ made' = made
        /\ emitted[dir[n]] = 0 /\ dir[n] \notin failed => Due(n) /\ WillBeEmitted(n)
    BY <1>6, <1>7, <2>1 DEF Run
  <2>3. CASE /\ toScan' = {m \in Names : dir[m] # 0}
             /\ run' = "scan" /\ failed' = failed
    <3>1. n \in toScan' /\ WillBeEmitted(n)
      BY <2>1, <2>2, <2>3
    <3> QED BY <1>7, <2>1, <2>2, <3>1 DEF ScanReadDir, WillBeEmitted, InHand, RemovedThenCreated
  <2>4. CASE failed' = failed \cup {dir[m] : m \in {k \in Names : dir[k] # 0}}
    BY <2>2, <2>4
  <2> QED BY <1>7, <2>3, <2>4 DEF ScanReadDir
<1>8. CASE ScanNext
  <2>1. UNCHANGED <<environment, events, overflowed, owner, body, processedFiles, history>>
    BY <1>8 DEF ScanNext
  <2>2. WillBeEmitted(n) /\ run = "scan"
    BY <1>6, <1>8, <2>1 DEF Run, ScanNext
  <2>3. PICK m \in toScan : toScan' = toScan \ {m} /\ path' = m /\ run' = "stat"
    BY <1>8 DEF ScanNext
  <2>4. InHand(n) => InHand(n)'
    BY <2>1, <2>2, <2>3 DEF InHand
  <2> QED BY <2>1, <2>2, <2>4 DEF WillBeEmitted, RemovedThenCreated
<1>9. CASE ScanEnd
  <2>1. UNCHANGED <<environment, events, overflowed, owner, path, body, processedFiles, history>>
    BY <1>9 DEF ScanEnd
  <2>2. WillBeEmitted(n) /\ run = "scan" /\ owner \in {"new", "started"}
    BY <1>6, <1>9, <2>1 DEF Run, ScanEnd
  <2>3. toScan = {}
    BY <1>9, <2>2 DEF ScanEnd, ctxDone
  <2>4. ~InHand(n)
    BY <2>2, <2>3 DEF InHand
  <2> QED BY <2>1, <2>2, <2>4 DEF WillBeEmitted, RemovedThenCreated
<1>10. CASE RunDone
  BY <1>6, <1>10 DEF Run, RunDone, ctxDone
<1>11. CASE RunCreateEvent \/ RunRemoveEvent \/ RunErrorEvent
  <2>1. /\ UNCHANGED <<environment, overflowed, owner, scanning, toScan, body, history>>
        /\ run = "select" /\ events # <<>> /\ events' = Tail(events)
    BY <1>11 DEF RunCreateEvent, RunRemoveEvent, RunErrorEvent
  <2>2. WillBeEmitted(n)
    BY <1>6, <1>11, <2>1 DEF Run
  <2>3. EventsAt(events, "create", n) # {} /\ (n \in processedFiles => RemovedThenCreated(n))
    BY <2>1, <2>2 DEF WillBeEmitted, InHand, ControlInv
  <2>4. EventsAt(events', "create", n) # {} \/ InHand(n)'
    <3>1. CASE Head(events) = [op |-> "create", name |-> n]
      <4>1. Head(events).op = "create" /\ Head(events).name = n
        BY <3>1
      <4> QED BY <1>11, <4>1 DEF RunCreateEvent, RunRemoveEvent, RunErrorEvent, InHand
    <3>2. CASE Head(events) # [op |-> "create", name |-> n]
      BY <1>0, <2>1, <2>3, <3>2, StillThere
    <3> QED BY <3>1, <3>2
  <2>5. n \in processedFiles' => RemovedThenCreated(n)'
    <3>1. CASE Head(events) = [op |-> "remove", name |-> n]
      <4>1. Head(events).op = "remove" /\ Head(events).name = n
        BY <3>1
      <4> QED BY <1>11, <4>1 DEF RunCreateEvent, RunRemoveEvent, RunErrorEvent
    <3>2. CASE Head(events) # [op |-> "remove", name |-> n]
      <4>1. processedFiles' \subseteq processedFiles
        BY <1>11 DEF RunCreateEvent, RunRemoveEvent, RunErrorEvent
      <4> QED BY <1>0, <2>1, <2>3, <3>2, <4>1, StillThere
    <3> QED BY <3>1, <3>2
  <2> QED BY <2>4, <2>5 DEF WillBeEmitted
<1>12. CASE HandlePath
  <2>1. UNCHANGED <<environment, events, overflowed, owner, toScan, processedFiles, history>>
    BY <1>12 DEF HandlePath
  <2>2. WillBeEmitted(n) /\ Due(n) /\ run = "stat"
    BY <1>6, <1>12, <2>1 DEF Run, HandlePath
  <2>3. n \in processedFiles => RemovedThenCreated(n)
    BY <2>2 DEF WillBeEmitted
  <2>4. n \in processedFiles => EventsAt(events, "create", n) # {}
    BY <2>3 DEF RemovedThenCreated
  <2>5. path = n /\ n \notin processedFiles => ToBeEmitted
    BY <1>0, <2>2 DEF Due, Missed, ToBeEmitted
  <2>6. InHand(n)' \/ EventsAt(events, "create", n) # {}
    <3>1. CASE ToBeEmitted
      BY <1>12, <2>1, <2>2, <3>1 DEF HandlePath, WillBeEmitted, InHand
    <3>2. CASE ~ToBeEmitted
      BY <2>1, <2>2, <2>4, <2>5, <3>2 DEF WillBeEmitted, InHand
    <3> QED BY <3>1, <3>2
  <2> QED BY <2>1, <2>3, <2>6 DEF WillBeEmitted, RemovedThenCreated
<1>13. CASE ReadFile
  <2>1. /\ UNCHANGED <<environment, events, overflowed, owner, toScan, path, history>>
        /\ run' = "consume" /\ body' = dir[path]
        /\ processedFiles' = processedFiles \cup {path}
    BY <1>13 DEF ReadFile
  <2>2. WillBeEmitted(n) /\ run = "read"
    BY <1>6, <1>13, <2>1 DEF Run, ReadFile
  <2>3. CASE path = n
    BY <1>0, <2>1, <2>3 DEF WillBeEmitted, InHand
  <2>4. CASE path # n
    BY <2>1, <2>2, <2>4 DEF WillBeEmitted, InHand, RemovedThenCreated
  <2> QED BY <2>3, <2>4
<1>14. CASE ReadFileError
  <2>1. UNCHANGED <<environment, events, overflowed, owner, toScan, processedFiles, emitted>>
    BY <1>14 DEF ReadFileError
  <2>2. path # n /\ dir[n] \notin failed
    BY <1>6, <1>14, <2>1 DEF Run, ReadFileError
  <2>3. WillBeEmitted(n) /\ run = "read"
    BY <1>6, <1>14, <2>1, <2>2 DEF Run, ReadFileError
  <2> QED BY <2>1, <2>2, <2>3 DEF WillBeEmitted, InHand, RemovedThenCreated
<1>15. CASE ConsumeLogs
  <2>1. UNCHANGED <<environment, events, overflowed, owner, toScan, processedFiles>>
    BY <1>15 DEF ConsumeLogs
  <2>2. /\ run = "consume" /\ body \in 1..MaxFiles /\ emitted \in [1..MaxFiles -> Nat]
    BY <1>0, <1>15, CrashlogAssumption DEF ConsumeLogs, TypeOK, ControlInv, Files
  <2>3. emitted'[dir[n]] = 0 /\ dir[n] \notin failed'
    BY <1>6, <1>15, <2>1 DEF Run
  <2>4. body # dir[n] /\ emitted[dir[n]] = 0 /\ dir[n] \notin failed
    <3>1. dir[n] \in 1..MaxFiles
      BY <1>0, <1>6, <1>15, <2>1, CrashlogAssumption DEF Run, ControlInv
    <3>2. CASE emitted' = [emitted EXCEPT ![body] = @ + 1] /\ failed' = failed
      BY <2>2, <2>3, <3>1, <3>2
    <3>3. CASE failed' = failed \cup {body} /\ emitted' = emitted
      BY <2>3, <3>3
    <3> QED BY <1>15, <3>2, <3>3 DEF ConsumeLogs
  <2>5. WillBeEmitted(n)
    BY <1>6, <1>15, <2>1, <2>4 DEF Run
  <2> QED BY <2>1, <2>2, <2>4, <2>5 DEF WillBeEmitted, InHand, RemovedThenCreated
<1>16. CASE UNCHANGED vars
  BY <1>1, <1>16 DEF vars, Due, Missed, WillBeEmitted, InHand, RemovedThenCreated
<1> QED BY <1>2, <1>3, <1>4, <1>5, <1>7, <1>8, <1>9, <1>10, <1>11, <1>12, <1>13, <1>14,
           <1>15, <1>16
        DEF Next, Run, Terminated

(* The number of records allowed to a name is a number.                    *)
LEMMA AllowedType ==
  ASSUME TypeOK, NEW n
  PROVE  /\ Allowed(n) \in Nat
         /\ Cardinality(EventsAt(events, "remove", n)) \in Nat
<1>1. Cardinality(EventsAt(events, "remove", n)) \in Nat
  BY EventsAtFinite DEF TypeOK
<1> QED BY <1>1 DEF Allowed, AllowedBy

(* A notification taken, and the name pruned if it tells of a removal,     *)
(* allow nothing more.                                                     *)
LEMMA AllowedTail ==
  ASSUME TypeOK, NEW n, events # <<>>, events' = Tail(events),
         \/ processedFiles' = processedFiles
         \/ Head(events).op = "remove" /\ processedFiles' = processedFiles \ {Head(events).name}
  PROVE  Allowed(n)' \in Nat /\ Allowed(n)' <= Allowed(n)
<1> DEFINE c == Cardinality(EventsAt(events, "remove", n))
           d == Cardinality(EventsAt(Tail(events), "remove", n))
<1>1. events \in Seq(Event) /\ Tail(events) \in Seq(Event)
  BY NonEmptySeq DEF TypeOK
<1>2. c \in Nat /\ d \in Nat
  BY <1>1, EventsAtFinite
<1>3. d + (IF Head(events).op = "remove" /\ Head(events).name = n THEN 1 ELSE 0) <= c
  BY <1>1, CountTail
<1>4. /\ Allowed(n) = c + IF n \in processedFiles THEN 0 ELSE 1
      /\ Allowed(n)' = d + IF n \in processedFiles' THEN 0 ELSE 1
  BY DEF Allowed, AllowedBy
<1> HIDE DEF c, d
<1>5. \/ n \in processedFiles' <=> n \in processedFiles
      \/ Head(events).op = "remove" /\ Head(events).name = n /\ n \notin processedFiles'
  OBVIOUS
<1> QED BY <1>2, <1>3, <1>4, <1>5

(* Every step keeps the number of records within what removes allow.       *)
LEMMA DuplicateStep ==
  TypeOK /\ ControlInv /\ DuplicateInv /\ [Next]_vars => DuplicateInv'
<1> SUFFICES ASSUME TypeOK, ControlInv, DuplicateInv, [Next]_vars PROVE DuplicateInv'
  OBVIOUS
<1>0. /\ made \in Seq(File) /\ Len(made) \in Nat /\ Len(made) <= MaxFiles /\ MaxFiles \in Nat
      /\ dir \in [Names -> 0..Len(made)]
      /\ emitted \in [1..MaxFiles -> Nat]
      /\ events \in Seq(Event) /\ overflowed \in BOOLEAN /\ processedFiles \subseteq Names
      /\ Files = 1..Len(made)
  BY CrashlogAssumption DEF TypeOK, ControlInv, Files
<1> USE DEF Allowed
<1>1. ASSUME NEW g \in Files
      PROVE  /\ made[g] \in File /\ made[g].name \in Names /\ made[g].stale \in Nat
             /\ g \in 1..MaxFiles /\ emitted[g] \in Nat /\ Consumed(g) \in {0, 1}
             /\ Allowed(made[g].name) \in Nat
             /\ emitted[g] + Consumed(g) <= 1 + made[g].stale
             /\ dir[made[g].name] = g =>
                  emitted[g] + Consumed(g) + Allowed(made[g].name) <= 1 + made[g].stale
  <2>1. made[g] \in File
    BY <1>0
  <2>2. made[g].name \in Names /\ made[g].stale \in Nat
    BY <2>1 DEF File
  <2>3. Consumed(g) \in {0, 1}
    BY DEF Consumed
  <2> QED BY <1>0, <2>1, <2>2, <2>3, AllowedType DEF DuplicateInv
<1>2. \A n \in Names : Allowed(n) \in Nat
  BY AllowedType
<1>3. ASSUME Files' = Files, \A g \in Files : made'[g] = made[g],
             \A g \in Files : /\ emitted'[g] = emitted[g] /\ Consumed(g)' \in {0, 1}
                              /\ Consumed(g)' <= Consumed(g),
             \A g \in Files : dir'[made[g].name] = g =>
               /\ dir[made[g].name] = g
               /\ Allowed(made[g].name)' \in Nat
               /\ Allowed(made[g].name)' <= Allowed(made[g].name)
      PROVE  DuplicateInv'
  <2> SUFFICES ASSUME NEW g \in Files
               PROVE  /\ (emitted[g] + Consumed(g) <= 1 + made[g].stale)'
                      /\ (dir[made[g].name] = g =>
                            emitted[g] + Consumed(g) + Allowed(made[g].name)
                              <= 1 + made[g].stale)'
    BY <1>3 DEF DuplicateInv
  <2>1. made'[g] = made[g]
    BY <1>3
  <2>2. (emitted[g] + Consumed(g) <= 1 + made[g].stale)'
    BY <1>1, <1>3
  <2>3. ASSUME dir'[made[g].name] = g
        PROVE  (emitted[g] + Consumed(g) + Allowed(made[g].name) <= 1 + made[g].stale)'
    BY <1>1, <1>3, <2>1, <2>3
  <2> QED BY <2>1, <2>2, <2>3
<1>4. ASSUME UNCHANGED <<made, emitted, dir>>,
             UNCHANGED <<run, body>> \/ run' # "consume",
             \A n \in Names : Allowed(n)' \in Nat /\ Allowed(n)' <= Allowed(n)
      PROVE  DuplicateInv'
  <2>1. Files' = Files
    BY <1>4 DEF Files
  <2>2. \A g \in Files : Consumed(g)' \in {0, 1} /\ Consumed(g)' <= Consumed(g)
    BY <1>4 DEF Consumed
  <2> QED BY <1>1, <1>3, <1>4, <2>1, <2>2
<1>5. ASSUME UNCHANGED <<events, processedFiles>>
      PROVE  \A n \in Names : Allowed(n)' \in Nat /\ Allowed(n)' <= Allowed(n)
  BY <1>2, <1>5 DEF AllowedBy
<1> USE DEF environment, history, goroutine
<1>6. ASSUME NEW m \in Names, PutFile(m) PROVE DuplicateInv'
  <2>1. PICK e \in BOOLEAN : made' = Append(made, NewFile(m, e))
    BY <1>6 DEF PutFile
  <2> DEFINE f == NewFile(m, e)
  <2>0. PICK c, new : c = Cardinality(EventsAt(events, "remove", m)) /\ new = Len(made) + 1
    OBVIOUS
  <2>2. f \in File /\ f.name = m /\ f.stale = c
    BY <1>0, <2>0, NewFileFacts
  <2> HIDE DEF f
  <2>3. /\ Len(made') = Len(made) + 1 /\ made'[new] = f
        /\ \A i \in 1..Len(made) : made'[i] = made[i]
    BY <1>0, <2>0, <2>1, <2>2, AppendSeq DEF f
  <2>4. /\ dir' = [dir EXCEPT ![m] = new] /\ UNCHANGED <<owner, goroutine>>
        /\ Notify("create", m) /\ Len(made) < MaxFiles
    BY <1>6, <2>0 DEF PutFile
  <2>5. ASSUME NEW n \in Names
        PROVE  /\ Allowed(n)' \in Nat /\ Allowed(n)' <= Allowed(n)
    <3>1. /\ events' \in Seq(Event)
          /\ Cardinality(EventsAt(events', "remove", n)) <=
               Cardinality(EventsAt(events, "remove", n))
      <4>1. \A k \in Names :
              Cardinality(EventsAt(events', "remove", k)) <=
                Cardinality(EventsAt(events, "remove", k))
                  + IF "create" = "remove" /\ k = m THEN 1 ELSE 0
        BY <1>0, <2>4, NotifyEvents
      <4>2. Cardinality(EventsAt(events, "remove", n)) \in Nat
        BY <1>0, EventsAtFinite
      <4>3. events' \in Seq(Event)
        BY <1>0, <2>4, NotifyEvents
      <4> QED BY <4>1, <4>2, <4>3
    <3>2. /\ Cardinality(EventsAt(events', "remove", n)) \in Nat
          /\ Cardinality(EventsAt(events, "remove", n)) \in Nat
      BY <1>0, <3>1, EventsAtFinite
    <3>3. UNCHANGED processedFiles
      BY <2>4
    <3> QED BY <3>1, <3>2, <3>3 DEF AllowedBy
  <2>6. c \in Nat /\ Allowed(m) <= 1 + c
    BY <1>0, <2>0, EventsAtFinite DEF AllowedBy
  <2>7. Files' = Files \cup {new} /\ new \notin Files
    BY <1>0, <2>0, <2>3 DEF Files
  <2> HIDE DEF Allowed
  <2>8. ASSUME NEW g \in Files
        PROVE  /\ (emitted[g] + Consumed(g) <= 1 + made[g].stale)'
               /\ (dir[made[g].name] = g =>
                     emitted[g] + Consumed(g) + Allowed(made[g].name) <= 1 + made[g].stale)'
    <3>1. made'[g] = made[g] /\ Consumed(g)' = Consumed(g) /\ emitted'[g] = emitted[g]
      BY <1>0, <2>3, <2>4 DEF Consumed
    <3>2. dir'[made[g].name] = g => dir[made[g].name] = g
      BY <1>0, <1>1, <2>4, <2>7
    <3>3. /\ Allowed(made[g].name)' \in Nat
          /\ Allowed(made[g].name)' <= Allowed(made[g].name)
      BY <1>1, <2>5, <3>1
    <3> QED BY <1>1, <3>1, <3>2, <3>3
  <2>9. /\ (emitted[new] + Consumed(new) <= 1 + made[new].stale)'
        /\ (emitted[new] + Consumed(new) + Allowed(made[new].name) <= 1 + made[new].stale)'
    <3>1. emitted'[new] = 0 /\ made'[new].name = m /\ made'[new].stale = c
      BY <1>0, <2>0, <2>2, <2>3, <2>4 DEF ControlInv
    <3>2. Consumed(new)' = 0
      <4>1. body \in 0..Len(made) /\ body' = body
        BY <2>4 DEF TypeOK
      <4>2. body' # new
        BY <1>0, <2>0, <4>1
      <4> QED BY <4>2 DEF Consumed
    <3>3. Allowed(m)' \in Nat /\ Allowed(m)' <= Allowed(m) /\ Allowed(m) \in Nat
      BY <1>2, <2>5
    <3>4. Allowed(made[new].name)' = Allowed(m)'
      BY <3>1
    <3> QED BY <2>6, <3>1, <3>2, <3>3, <3>4
  <2>10. ASSUME NEW g \in Files'
         PROVE  /\ (emitted[g] + Consumed(g) <= 1 + made[g].stale)'
                /\ (dir[made[g].name] = g =>
                      emitted[g] + Consumed(g) + Allowed(made[g].name) <= 1 + made[g].stale)'
    <3>1. CASE g \in Files
      BY <2>8, <3>1
    <3>2. CASE g = new
      BY <2>9, <3>2
    <3> QED BY <2>7, <3>1, <3>2
  <2> QED BY <2>10 DEF DuplicateInv
<1>7. ASSUME NEW m \in Names, RemoveFile(m) PROVE DuplicateInv'
  <2>1. /\ dir' = [dir EXCEPT ![m] = 0] /\ UNCHANGED <<made, owner, goroutine>>
        /\ Notify("remove", m)
    BY <1>7 DEF RemoveFile
  <2>2. Files' = Files /\ 0 \notin Files
    BY <1>0, <2>1 DEF Files
  <2>3. \A g \in Files : /\ emitted'[g] = emitted[g] /\ Consumed(g)' \in {0, 1}
                         /\ Consumed(g)' <= Consumed(g)
    BY <2>1 DEF Consumed
  <2>4. ASSUME NEW g \in Files, dir'[made[g].name] = g
        PROVE  /\ dir[made[g].name] = g
               /\ Allowed(made[g].name)' \in Nat
               /\ Allowed(made[g].name)' <= Allowed(made[g].name)
    <3>0. PICK n : n = made[g].name
      OBVIOUS
    <3>1. n \in Names /\ n # m /\ dir[n] = g
      BY <1>0, <1>1, <2>1, <2>2, <2>4, <3>0
    <3>2. /\ events' \in Seq(Event)
          /\ Cardinality(EventsAt(events', "remove", n)) <=
               Cardinality(EventsAt(events, "remove", n)) + IF n = m THEN 1 ELSE 0
      BY <1>0, <2>1, <3>1, NotifyEvents
    <3>3. /\ Cardinality(EventsAt(events', "remove", n)) \in Nat
          /\ Cardinality(EventsAt(events, "remove", n)) \in Nat
      BY <1>0, <3>2, EventsAtFinite
    <3>4. UNCHANGED processedFiles
      BY <2>1
    <3>5. Cardinality(EventsAt(events', "remove", n)) <= Cardinality(EventsAt(events, "remove", n))
      BY <3>1, <3>2, <3>3
    <3>6. Allowed(n)' \in Nat /\ Allowed(n)' <= Allowed(n)
      BY <3>3, <3>4, <3>5 DEF AllowedBy
    <3>7. Allowed(made[g].name)' = Allowed(n)' /\ Allowed(made[g].name) = Allowed(n)
      BY <2>1, <3>0
    <3> QED BY <3>0, <3>1, <3>6, <3>7
  <2>5. \A g \in Files : made'[g] = made[g]
    BY <2>1
  <2> HIDE DEF Allowed
  <2> QED BY <1>3, <2>2, <2>3, <2>4, <2>5
<1>8. CASE Start
  BY <1>4, <1>5, <1>8 DEF Start
<1>9. CASE ShutdownCancel \/ ShutdownWait
  BY <1>4, <1>5, <1>9 DEF ShutdownCancel, ShutdownWait
<1>10. CASE ShutdownClose
  <2>1. /\ UNCHANGED <<made, emitted, dir, run, body, processedFiles>> /\ events' = <<>>
    BY <1>10 DEF ShutdownClose
  <2>2. ASSUME NEW n \in Names PROVE Allowed(n)' \in Nat /\ Allowed(n)' <= Allowed(n)
    <3>1. EventsAt(events', "remove", n) = {}
      BY <2>1 DEF EventsAt
    <3>2. Cardinality(EventsAt(events', "remove", n)) = 0
      BY <3>1, FS_EmptySet
    <3>3. Cardinality(EventsAt(events, "remove", n)) \in Nat
      BY AllowedType
    <3> DEFINE y == IF n \in processedFiles THEN 0 ELSE 1
               c == Cardinality(EventsAt(events, "remove", n))
    <3>4. Allowed(n)' = 0 + y /\ Allowed(n) = c + y
      BY <2>1, <3>2 DEF AllowedBy
    <3>5. y \in {0, 1} /\ c \in Nat
      BY <3>3
    <3> HIDE DEF y, c, Allowed
    <3> QED BY <3>4, <3>5
  <2> QED BY <1>4, <2>1, <2>2
<1>11. CASE ScanReadDir \/ ScanNext \/ ScanEnd \/ RunDone \/ HandlePath \/ ReadFileError
  <2>1. UNCHANGED <<made, emitted, dir, events, processedFiles>> /\ run' # "consume"
    BY <1>11 DEF ScanReadDir, ScanNext, ScanEnd, RunDone, HandlePath, ReadFileError, Return
  <2> QED BY <1>4, <1>5, <2>1
<1>12. CASE RunCreateEvent \/ RunRemoveEvent \/ RunErrorEvent
  <2>1. /\ UNCHANGED <<made, emitted, dir>> /\ run' # "consume"
        /\ events # <<>> /\ events' = Tail(events)
        /\ \/ processedFiles' = processedFiles
           \/ /\ Head(events).op = "remove"
              /\ processedFiles' = processedFiles \ {Head(events).name}
    BY <1>12 DEF RunCreateEvent, RunRemoveEvent, RunErrorEvent
  <2> QED BY <1>4, <2>1, AllowedTail
<1>13. CASE ReadFile
  <2>1. /\ UNCHANGED <<made, emitted, dir, events>>
        /\ run = "read" /\ run' = "consume" /\ dir[path] # 0 /\ body' = dir[path]
        /\ processedFiles' = processedFiles \cup {path}
    BY <1>13 DEF ReadFile
  <2>2. path \in Names /\ path \notin processedFiles
    BY <2>1 DEF ControlInv
  <2>3. made[body'].name = path
    BY <2>1, <2>2 DEF TypeOK
  <2>4. \A n \in Names : /\ Allowed(n)' \in Nat /\ Allowed(n)' <= Allowed(n)
                         /\ n = path => Allowed(n)' + 1 <= Allowed(n)
    BY <2>1, <2>2, AllowedType DEF AllowedBy
  <2>5. Files' = Files
    BY <2>1 DEF Files
  <2> HIDE DEF Allowed
  <2>6. ASSUME NEW g \in Files
        PROVE  /\ (emitted[g] + Consumed(g) <= 1 + made[g].stale)'
               /\ (dir[made[g].name] = g =>
                     emitted[g] + Consumed(g) + Allowed(made[g].name) <= 1 + made[g].stale)'
    <3>1. Consumed(g) = 0 /\ Consumed(g)' = IF body' = g THEN 1 ELSE 0
      BY <2>1 DEF Consumed
    <3>2. /\ Allowed(made[g].name)' \in Nat /\ Allowed(made[g].name)' <= Allowed(made[g].name)
          /\ body' = g => /\ dir[made[g].name] = g
                          /\ Allowed(made[g].name)' + 1 <= Allowed(made[g].name)
      BY <1>1, <2>1, <2>3, <2>4
    <3> QED BY <1>1, <2>1, <3>1, <3>2
  <2> QED BY <2>5, <2>6 DEF DuplicateInv
<1>14. CASE ConsumeLogs
  <2>1. /\ UNCHANGED <<made, dir, events, processedFiles>>
        /\ run = "consume" /\ run' # "consume" /\ body \in 1..MaxFiles
        /\ emitted' = emitted \/ emitted' = [emitted EXCEPT ![body] = @ + 1]
    BY <1>0, <1>14 DEF ConsumeLogs, Return, TypeOK
  <2>2. \A n \in Names : Allowed(n)' = Allowed(n)
    BY <2>1 DEF AllowedBy
  <2>3. Files' = Files
    BY <2>1 DEF Files
  <2> HIDE DEF Allowed
  <2>4. ASSUME NEW g \in Files
        PROVE  /\ (emitted[g] + Consumed(g) <= 1 + made[g].stale)'
               /\ (dir[made[g].name] = g =>
                     emitted[g] + Consumed(g) + Allowed(made[g].name) <= 1 + made[g].stale)'
    <3>1. Consumed(g)' = 0 /\ emitted'[g] \in Nat /\ emitted'[g] <= emitted[g] + Consumed(g)
      <4>1. CASE body = g
        <5>1. Consumed(g) = 1 /\ Consumed(g)' = 0
          BY <2>1, <4>1 DEF Consumed
        <5>2. emitted'[g] = emitted[g] \/ emitted'[g] = emitted[g] + 1
          BY <1>0, <2>1, <4>1
        <5>3. emitted[g] \in Nat
          BY <1>1
        <5> QED BY <5>1, <5>2, <5>3
      <4>2. CASE body # g
        BY <1>0, <1>1, <2>1, <4>2 DEF Consumed
      <4> QED BY <4>1, <4>2
    <3>2. made'[g] = made[g] /\ dir' = dir /\ Allowed(made[g].name)' = Allowed(made[g].name)
      BY <1>1, <2>1, <2>2
    <3> QED BY <1>1, <3>1, <3>2
  <2> QED BY <2>3, <2>4 DEF DuplicateInv
<1>15. CASE UNCHANGED vars
  BY <1>4, <1>5, <1>15 DEF vars
<1> QED BY <1>6, <1>7, <1>8, <1>9, <1>10, <1>11, <1>12, <1>13, <1>14, <1>15
        DEF Next, Run, Terminated

-----------------------------------------------------------------------------
(* Theorems *)

(* IInv holds in every reachable state.                                    *)
THEOREM Invariance == Spec => []IInv
<1>1. IInv /\ [Next]_vars => IInv'
  BY TypeStep, ControlStep, PruneStep, EmitStep, DuplicateStep DEF IInv
<1> QED BY InitIInv, <1>1, PTL DEF Spec

(* Every eligible file reaches the consumer, and once, with the exceptions *)
(* of EachNewFileEmitted and NoDuplicate, in whatever order the scan,      *)
(* run()'s events and the changes of the directory come.                   *)
THEOREM EmittedOnceHolds == Spec => []EmittedOnce
<1>1. ASSUME IInv PROVE EachNewFileEmitted
  <2> SUFFICES ASSUME Settled, NEW n \in Names, dir[n] # 0, ~made[dir[n]].over, Missed(dir[n])
               PROVE  FALSE
    BY DEF EachNewFileEmitted
  <2>1. WillBeEmitted(n)
    BY <1>1 DEF IInv, EmitInv, Settled, Due
  <2>2. EventsAt(events, "create", n) = {}
    BY DEF Settled, EventsAt
  <2>3. ~InHand(n)
    BY <1>1 DEF IInv, ControlInv, Settled, InHand
  <2> QED BY <2>1, <2>2, <2>3 DEF WillBeEmitted
<1>2. ASSUME IInv PROVE NoDuplicate
  <2> SUFFICES ASSUME NEW g \in Files PROVE emitted[g] <= 1 + made[g].stale
    BY DEF NoDuplicate
  <2>1. emitted[g] + Consumed(g) <= 1 + made[g].stale
    BY <1>2 DEF IInv, DuplicateInv
  <2>2. /\ made[g] \in File /\ g \in 1..MaxFiles /\ Consumed(g) \in {0, 1}
        /\ emitted \in [1..MaxFiles -> Nat]
    BY <1>2, CrashlogAssumption DEF IInv, TypeOK, ControlInv, Files, Consumed
  <2>3. emitted[g] \in Nat /\ made[g].stale \in Nat
    BY <2>2 DEF File
  <2> QED BY <2>1, <2>2, <2>3
<1> QED BY Invariance, <1>1, <1>2, PTL DEF EmittedOnce

(* Once run() has caught up, processedFiles names only files that exist.   *)
THEOREM ProcessedIsPruned == Spec => []ProcessedPruned
<1>1. ASSUME IInv, Settled, NEW n \in processedFiles PROVE dir[n] # 0
  <2>1. EventsAt(events, "remove", n) = {}
    BY <1>1 DEF Settled, EventsAt
  <2> QED BY <1>1, <2>1 DEF IInv, PruneInv, Following, Watched, Settled
<1>2. IInv => ProcessedPruned
  BY <1>1 DEF ProcessedPruned
<1> QED BY Invariance, <1>2, PTL

(* Once Shutdown() has returned, no step hands a record to the consumer.   *)
THEOREM SilentAfterShutdown == Spec => Silent
<1>1. IInv /\ [Next]_vars => [owner = "down" => UNCHANGED emitted]_vars
  <2> SUFFICES ASSUME ControlInv, [Next]_vars, owner = "down" PROVE emitted' = emitted
    BY DEF IInv
  <2>1. run = "returned"
    BY DEF ControlInv
  <2>2. ~Run
    BY <2>1 DEF Run, ScanReadDir, ScanNext, ScanEnd, RunDone, RunCreateEvent, RunRemoveEvent,
                RunErrorEvent, HandlePath, ReadFile, ReadFileError, ConsumeLogs
  <2> QED BY <2>2 DEF Next, PutFile, RemoveFile, Start, ShutdownCancel, ShutdownClose,
                      ShutdownWait, Terminated, vars, goroutine, history
<1> QED BY Invariance, <1>1, PTL DEF Spec, Silent
=============================================================================
