-------------------------- MODULE SessionJournal_proofs --------------------------
(***************************************************************************)
(* The ring of SessionJournal implements the bounded log, for every         *)
(* capacity and every set of frames.  The arithmetic is settled first: what *)
(* `% Capacity` does to an index that ran past the end at most once.        *)
(***************************************************************************)
EXTENDS SessionJournal, SequenceTheorems, WellFoundedInduction, TLAPS

USE CapacityAssumption, FrameAssumption

LEMMA Wrap ==
  ASSUME NEW x \in 0 .. 2 * Capacity - 1
  PROVE  x % Capacity = IF x < Capacity THEN x ELSE x - Capacity
OBVIOUS

(* The slot of logical offset i when the head is at h. *)
SlotOf(h, i) == (h + i) % Capacity

LEMMA SlotOfIs ==
  ASSUME NEW h \in Slot, NEW i \in 0 .. Capacity
  PROVE  /\ SlotOf(h, i) = IF h + i < Capacity THEN h + i ELSE h + i - Capacity
         /\ SlotOf(h, i) \in Slot
BY Wrap DEF SlotOf, Slot

LEMMA SlotsDiffer ==
  ASSUME NEW h \in Slot, NEW i \in Slot, NEW j \in Slot, i # j
  PROVE  SlotOf(h, i) # SlotOf(h, j) /\ SlotOf(h, i) \in Slot
<1>1. h \in Int /\ i \in 0 .. Capacity - 1 /\ j \in 0 .. Capacity - 1 /\ Capacity \in Nat
  BY DEF Slot
<1>2. SlotOf(h, i) = IF h + i < Capacity THEN h + i ELSE h + i - Capacity
  BY <1>1, SlotOfIs
<1>3. SlotOf(h, j) = IF h + j < Capacity THEN h + j ELSE h + j - Capacity
  BY <1>1, SlotOfIs
<1>4. SlotOf(h, i) \in Slot
  BY <1>1, SlotOfIs
<1> QED
  BY <1>1, <1>2, <1>3, <1>4

LEMMA HeadMoves ==
  ASSUME NEW h \in Slot, NEW i \in Slot
  PROVE  SlotOf(SlotOf(h, 1), i) = SlotOf(h, i + 1)
<1>1. /\ h \in 0 .. Capacity - 1 /\ i \in 0 .. Capacity - 1
      /\ Capacity \in Nat \ {0} /\ 1 \in 0 .. Capacity /\ i + 1 \in 0 .. Capacity
  BY DEF Slot
<1>2. SlotOf(h, 1) = IF h + 1 < Capacity THEN h + 1 ELSE h + 1 - Capacity
  BY <1>1, SlotOfIs
<1>3. SlotOf(h, i + 1) = IF h + i + 1 < Capacity THEN h + i + 1 ELSE h + i + 1 - Capacity
  BY <1>1, SlotOfIs
<1>4. SlotOf(h, 1) \in Slot
  BY <1>1, SlotOfIs
<1> DEFINE k == SlotOf(h, 1)
<1>5. SlotOf(k, i) = IF k + i < Capacity THEN k + i ELSE k + i - Capacity
  BY <1>1, <1>4, SlotOfIs
<1> QED
  BY <1>1, <1>2, <1>3, <1>5

--------------------------------------------------------------------------------
(* The inductive invariant.  Its second half is what TypeOK lacks: the ring  *)
(* has as many envelopes as were appended, up to its capacity, each under    *)
(* its own seq.                                                              *)
Filled ==
  /\ size = IF nextSeq - 1 < Capacity THEN nextSeq - 1 ELSE Capacity
  /\ \A i \in 0 .. size - 1 :
       /\ EntryAt(i) \in Envelope
       /\ EntryAt(i).seq = nextSeq - size + i

JournalInv == TypeOK /\ Filled

(* What one append does to the entry at each logical offset: the others move *)
(* down by one when the ring was full, and the new one comes last.           *)
Pushed(f) ==
  /\ nextSeq' = nextSeq + 1
  /\ size' = IF size < Capacity THEN size + 1 ELSE size
  /\ \A i \in 0 .. Capacity - 1 :
       i = size' - 1 => EntryAt(i)' = [seq |-> nextSeq, frame |-> f]
  /\ \A i \in 0 .. size' - 2 :
       EntryAt(i)' = EntryAt(IF size < Capacity THEN i ELSE i + 1)

LEMMA AppendPushes ==
  ASSUME TypeOK, NEW f \in Frame, AppendFrame(f)
  PROVE  TypeOK' /\ Pushed(f)
<1> DEFINE e == [seq |-> nextSeq, frame |-> f]
<1>1. /\ startIndex \in Slot /\ size \in 0 .. Capacity /\ nextSeq \in Nat \ {0}
      /\ entries \in [Slot -> Envelope \cup {None}] /\ Capacity \in Nat \ {0}
  BY DEF TypeOK
<1>2. e \in Envelope
  BY <1>1 DEF Envelope
<1>3. nextSeq' = nextSeq + 1
  BY DEF AppendFrame
<1>4. CASE size < Capacity
  <2>1. /\ entries' = [entries EXCEPT ![SlotOf(startIndex, size)] = e]
        /\ size' = size + 1 /\ startIndex' = startIndex
    BY <1>1, <1>4 DEF AppendFrame, SlotOf
  <2>2. size \in Slot /\ SlotOf(startIndex, size) \in Slot
    <3>1. size \in Slot
      BY <1>1, <1>4 DEF Slot
    <3> QED
      BY <1>1, <3>1, SlotOfIs
  <2>3. TypeOK'
    BY <1>1, <1>2, <1>3, <1>4, <2>1, <2>2 DEF TypeOK
  <2>4. ASSUME NEW i \in 0 .. Capacity - 1, i = size' - 1
        PROVE  EntryAt(i)' = e
    <3>1. i = size
      BY <1>1, <2>1, <2>4
    <3>2. EntryAt(i)' = entries'[SlotOf(startIndex, i)]
      BY <2>1 DEF EntryAt, SlotOf
    <3> QED
      BY <1>1, <2>1, <2>2, <3>1, <3>2
  <2>5. ASSUME NEW i \in 0 .. size' - 2
        PROVE  EntryAt(i)' = EntryAt(i)
    <3>1. i \in Slot /\ i # size
      BY <1>1, <1>4, <2>1 DEF Slot
    <3>2. SlotOf(startIndex, i) # SlotOf(startIndex, size) /\ SlotOf(startIndex, i) \in Slot
      BY <1>1, <2>2, <3>1, SlotsDiffer
    <3>3. EntryAt(i)' = entries'[SlotOf(startIndex, i)] /\ EntryAt(i) = entries[SlotOf(startIndex, i)]
      BY <2>1 DEF EntryAt, SlotOf
    <3> QED
      BY <1>1, <2>1, <3>2, <3>3
  <2> QED
    BY <1>3, <1>4, <2>1, <2>3, <2>4, <2>5 DEF Pushed
<1>5. CASE size = Capacity
  <2>1. /\ entries' = [entries EXCEPT ![startIndex] = e]
        /\ size' = size /\ startIndex' = SlotOf(startIndex, 1)
    BY <1>1, <1>5 DEF AppendFrame, SlotOf, HeadAfter
  <2>2. SlotOf(startIndex, 1) \in Slot /\ SlotOf(startIndex, 0) = startIndex
    <3>1. startIndex \in 0 .. Capacity - 1 /\ 1 \in 0 .. Capacity /\ 0 \in 0 .. Capacity
      BY <1>1 DEF Slot
    <3>2. SlotOf(startIndex, 1) \in Slot
      BY <1>1, <3>1, SlotOfIs
    <3>3. SlotOf(startIndex, 0) = IF startIndex + 0 < Capacity
                                  THEN startIndex + 0 ELSE startIndex + 0 - Capacity
      BY <1>1, <3>1, SlotOfIs
    <3> QED
      BY <3>1, <3>2, <3>3
  <2>3. TypeOK'
    BY <1>1, <1>2, <1>3, <1>5, <2>1, <2>2 DEF TypeOK
  <2>4. ASSUME NEW i \in Slot
        PROVE  EntryAt(i)' = entries'[SlotOf(startIndex, i + 1)]
    <3>1. EntryAt(i)' = entries'[SlotOf(startIndex', i)]
      BY DEF EntryAt, SlotOf
    <3> QED
      BY <1>1, <2>1, <3>1, HeadMoves
  <2>5. ASSUME NEW i \in 0 .. Capacity - 1, i = size' - 1
        PROVE  EntryAt(i)' = e
    <3>1. i \in Slot /\ i + 1 = Capacity
      BY <1>1, <1>5, <2>1, <2>5 DEF Slot
    <3>2. SlotOf(startIndex, Capacity) = startIndex
      BY <1>1, SlotOfIs DEF Slot
    <3>3. EntryAt(i)' = entries'[startIndex]
      BY <2>4, <3>1, <3>2
    <3> QED
      BY <1>1, <2>1, <3>3
  <2>6. ASSUME NEW i \in 0 .. size' - 2
        PROVE  EntryAt(i)' = EntryAt(i + 1)
    <3>1. i \in Slot /\ i + 1 \in Slot /\ i + 1 # 0 /\ 0 \in Slot
      BY <1>1, <1>5, <2>1 DEF Slot
    <3>2. SlotOf(startIndex, i + 1) # SlotOf(startIndex, 0) /\ SlotOf(startIndex, i + 1) \in Slot
      BY <1>1, <3>1, SlotsDiffer
    <3>3. EntryAt(i + 1) = entries[SlotOf(startIndex, i + 1)]
      BY DEF EntryAt, SlotOf
    <3> QED
      BY <1>1, <2>1, <2>2, <2>4, <3>1, <3>2, <3>3
  <2> QED
    BY <1>1, <1>3, <1>5, <2>1, <2>3, <2>5, <2>6 DEF Pushed
<1> QED
  BY <1>1, <1>4, <1>5

LEMMA FilledStep ==
  ASSUME JournalInv, NEW f \in Frame, AppendFrame(f)
  PROVE  Filled'
<1>1. /\ size \in 0 .. Capacity /\ nextSeq \in Nat \ {0} /\ Capacity \in Nat \ {0}
      /\ size = IF nextSeq - 1 < Capacity THEN nextSeq - 1 ELSE Capacity
  BY DEF JournalInv, TypeOK, Filled
<1>2. /\ nextSeq' = nextSeq + 1
      /\ size' = IF size < Capacity THEN size + 1 ELSE size
  BY AppendPushes DEF JournalInv, Pushed
<1>3. size' = IF nextSeq' - 1 < Capacity THEN nextSeq' - 1 ELSE Capacity
  BY <1>1, <1>2
<1>4. ASSUME NEW i \in 0 .. size' - 1
      PROVE  EntryAt(i)' \in Envelope /\ EntryAt(i)'.seq = nextSeq' - size' + i
  <2>1. CASE i = size' - 1
    <3>1. i \in 0 .. Capacity - 1
      BY <1>1, <1>2, <2>1
    <3>2. EntryAt(i)' = [seq |-> nextSeq, frame |-> f]
      BY <2>1, <3>1, AppendPushes DEF JournalInv, Pushed
    <3>3. EntryAt(i)' \in Envelope /\ EntryAt(i)'.seq = nextSeq
      BY <1>1, <3>2 DEF Envelope
    <3> QED
      BY <1>1, <1>2, <2>1, <3>3
  <2>2. CASE i # size' - 1
    <3> DEFINE j == IF size < Capacity THEN i ELSE i + 1
    <3>1. i \in 0 .. size' - 2 /\ j \in 0 .. size - 1
      BY <1>1, <1>2, <2>2
    <3>2. EntryAt(i)' = EntryAt(j)
      BY <3>1, AppendPushes DEF JournalInv, Pushed
    <3>3. EntryAt(j) \in Envelope /\ EntryAt(j).seq = nextSeq - size + j
      BY <3>1 DEF JournalInv, Filled
    <3> HIDE DEF j
    <3>4. EntryAt(i)' \in Envelope /\ EntryAt(i)'.seq = nextSeq - size + j
      BY <3>2, <3>3
    <3>5. nextSeq - size + j = nextSeq' - size' + i
      BY <1>1, <1>2, <3>1 DEF j
    <3> QED
      BY <3>4, <3>5
  <2> QED
    BY <2>1, <2>2
<1> QED
  BY <1>3, <1>4 DEF Filled

LEMMA InvInit == Init => JournalInv
<1> SUFFICES ASSUME Init PROVE JournalInv
  OBVIOUS
<1>1. TypeOK
  BY DEF Init, TypeOK, Slot
<1>2. Filled
  BY DEF Init, Filled
<1> QED
  BY <1>1, <1>2 DEF JournalInv

LEMMA InvStep == JournalInv /\ [Next]_vars => JournalInv'
<1> SUFFICES ASSUME JournalInv, [Next]_vars PROVE JournalInv'
  OBVIOUS
<1>1. ASSUME NEW f \in Frame, AppendFrame(f) PROVE JournalInv'
  BY <1>1, AppendPushes, FilledStep DEF JournalInv
<1>2. CASE UNCHANGED vars
  BY <1>2 DEF vars, JournalInv, TypeOK, Filled, EntryAt
<1> QED
  BY <1>1, <1>2 DEF Next

LEMMA InvHolds == Spec => []JournalInv
BY InvInit, InvStep, PTL DEF Spec

(* The ring keeps its shape: the head stays inside the array and no more     *)
(* slots are counted than there are (journal.ts:18-33).                      *)
THEOREM JournalTypeCorrect == Spec => []TypeOK
<1>1. JournalInv => TypeOK
  BY DEF JournalInv
<1> QED
  BY <1>1, InvHolds, PTL

--------------------------------------------------------------------------------
(* Refinement *)

LEMMA LogInit == Init => Log!LogInit
<1> SUFFICES ASSUME Init PROVE Log!LogInit
  OBVIOUS
<1>1. LatestSeq = 0 /\ size = 0
  BY DEF Init, LatestSeq
<1>2. Window = << >>
  BY <1>1 DEF Window
<1> QED
  BY <1>1, <1>2 DEF Log!LogInit

LEMMA LogStep ==
  ASSUME JournalInv, NEW f \in Frame, AppendFrame(f)
  PROVE  Log!Append1(f)
<1> DEFINE e == [seq |-> nextSeq, frame |-> f]
<1>1. /\ size \in 0 .. Capacity /\ nextSeq \in Nat \ {0} /\ Capacity \in Nat \ {0}
  BY DEF JournalInv, TypeOK
<1>2. /\ nextSeq' = nextSeq + 1
      /\ size' = IF size < Capacity THEN size + 1 ELSE size
  BY AppendPushes DEF JournalInv, Pushed
<1>3. LatestSeq' = LatestSeq + 1 /\ LatestSeq + 1 = nextSeq
  BY <1>1, <1>2 DEF LatestSeq
<1>4. Window \in Seq(Envelope) /\ Len(Window) = size
  <2>1. \A i \in 1 .. size : EntryAt(i - 1) \in Envelope
    BY <1>1 DEF JournalInv, Filled
  <2> QED
    BY <1>1, <2>1 DEF Window
<1>5. \A i \in 1 .. size : Window[i] = EntryAt(i - 1)
  BY DEF Window
<1>6. ASSUME NEW i \in 1 .. size'
      PROVE  Window'[i] = IF i = size' THEN e
                          ELSE IF size < Capacity THEN Window[i] ELSE Window[i + 1]
  <2>1. Window'[i] = EntryAt(i - 1)'
    BY DEF Window
  <2>2. CASE i = size'
    <3>1. i - 1 \in 0 .. Capacity - 1 /\ i - 1 = size' - 1
      BY <1>1, <1>2, <2>2
    <3> QED
      BY <2>1, <2>2, <3>1, AppendPushes DEF JournalInv, Pushed
  <2>3. CASE i # size'
    <3> DEFINE j == IF size < Capacity THEN i ELSE i + 1
    <3>1. i - 1 \in 0 .. size' - 2 /\ j \in 1 .. size
      BY <1>1, <1>2, <2>3
    <3>2. EntryAt(i - 1)' = EntryAt(IF size < Capacity THEN i - 1 ELSE (i - 1) + 1)
      BY <3>1, AppendPushes DEF JournalInv, Pushed
    <3>3. (IF size < Capacity THEN i - 1 ELSE (i - 1) + 1) = j - 1
      BY <1>1, <1>2, <3>1
    <3>4. EntryAt(i - 1)' = Window[j]
      BY <1>5, <3>1, <3>2, <3>3
    <3> QED
      BY <2>1, <2>3, <3>4
  <2> QED
    BY <2>2, <2>3
<1>7. e \in Envelope
  BY <1>1 DEF Envelope
<1>8. Window' \in Seq(Envelope) /\ Len(Window') = size'
  <2>1. \A i \in 1 .. size' : Window'[i] \in Envelope
    BY <1>1, <1>2, <1>4, <1>6, <1>7
  <2>2. Window' = [i \in 1 .. size' |-> Window'[i]] /\ size' \in Nat
    BY <1>1, <1>2 DEF Window
  <2> QED
    BY <2>1, <2>2
<1> HIDE DEF e
<1>9. CASE size < Capacity
  <2>1. /\ Append(Window, e) \in Seq(Envelope)
        /\ Len(Append(Window, e)) = size + 1
        /\ \A i \in 1 .. size : Append(Window, e)[i] = Window[i]
        /\ Append(Window, e)[size + 1] = e
    BY <1>4, <1>7, AppendProperties
  <2>2. \A i \in 1 .. Len(Window') : Window'[i] = Append(Window, e)[i]
    BY <1>1, <1>2, <1>6, <1>8, <1>9, <2>1
  <2>3. Window' = Append(Window, e)
    BY <1>2, <1>8, <1>9, <2>1, <2>2, SeqEqual
  <2> QED
    BY <1>3, <1>4, <1>9, <2>3 DEF Log!Append1, Log!Room, e
<1>10. CASE size = Capacity
  <2>1. /\ Tail(Window) \in Seq(Envelope) /\ Len(Tail(Window)) = size - 1
        /\ \A i \in 1 .. size - 1 : Tail(Window)[i] = Window[i + 1]
    <3>1. Window # << >>
      BY <1>1, <1>4, <1>10
    <3> QED
      BY <1>4, <3>1, HeadTailProperties
  <2> DEFINE w == Append(Tail(Window), e)
  <2>2. /\ w \in Seq(Envelope) /\ Len(w) = (size - 1) + 1
        /\ \A i \in 1 .. size - 1 : w[i] = Tail(Window)[i]
        /\ w[(size - 1) + 1] = e
    BY <1>7, <2>1, AppendProperties
  <2>3. \A i \in 1 .. Len(Window') : Window'[i] = w[i]
    <3> HIDE DEF w
    <3>1. \A i \in 1 .. size - 1 : w[i] = Window[i + 1]
      BY <2>1, <2>2
    <3>2. w[size] = e
      BY <1>1, <2>2
    <3> QED
      BY <1>1, <1>2, <1>6, <1>8, <1>10, <3>1, <3>2
  <2>4. Window' = w
    <3> HIDE DEF w
    <3>1. Len(Window') = Len(w)
      BY <1>1, <1>2, <1>8, <1>10, <2>2
    <3> QED
      BY <1>8, <2>2, <2>3, <3>1, SeqEqual
  <2> QED
    BY <1>3, <1>4, <1>10, <2>4 DEF Log!Append1, Log!Room, e
<1> QED
  BY <1>1, <1>9, <1>10

(* The ring implements the log that keeps its newest Capacity envelopes:     *)
(* eviction in place and the moving head are invisible to its readers.       *)
THEOREM JournalImplementsLog == Spec => ImplementsLog
<1>1. JournalInv /\ [Next]_vars => [Log!LogNext]_(Log!logVars)
  <2> SUFFICES ASSUME JournalInv, [Next]_vars PROVE [Log!LogNext]_(Log!logVars)
    OBVIOUS
  <2>1. ASSUME NEW f \in Frame, AppendFrame(f) PROVE Log!LogNext
    BY <2>1, LogStep DEF Log!LogNext
  <2>2. CASE UNCHANGED vars
    BY <2>2 DEF vars, Log!logVars, LatestSeq, Window, EntryAt
  <2> QED
    BY <2>1, <2>2 DEF Next
<1> QED
  BY <1>1, LogInit, InvHolds, PTL DEF Spec, ImplementsLog, Log!LogSpec

(* A resuming subscriber gets exactly what follows its cursor, or is told to *)
(* start over (journal.ts:65-84).                                            *)
LEMMA ReplayFollows == JournalInv => ReplayIsExact
<1> SUFFICES ASSUME JournalInv, NEW since \in 0 .. nextSeq
             PROVE  After(since) = Log!After(since)
  BY DEF ReplayIsExact
<1>1. /\ size \in 0 .. Capacity /\ nextSeq \in Nat \ {0} /\ Capacity \in Nat \ {0}
      /\ size = IF nextSeq - 1 < Capacity THEN nextSeq - 1 ELSE Capacity
  BY DEF JournalInv, TypeOK, Filled
<1>2. Window \in Seq(Envelope) /\ Len(Window) = size
  <2>1. \A i \in 1 .. size : EntryAt(i - 1) \in Envelope
    BY <1>1 DEF JournalInv, Filled
  <2> QED
    BY <1>1, <2>1 DEF Window
<1>3. LatestSeq = nextSeq - 1
  BY DEF LatestSeq
<1>4. CASE since >= LatestSeq
  BY <1>1, <1>3, <1>4 DEF After, Log!After
<1>5. CASE since < LatestSeq
  <2>1. size > 0 /\ OldestSeq = nextSeq - size /\ Log!Oldest = nextSeq - size
    BY <1>1, <1>2, <1>3, <1>5 DEF OldestSeq, Log!Oldest
  <2> DEFINE start == since + 1 - (nextSeq - size)
  <2>2. CASE start < 0
    <3>1. After(since) = None
      BY <1>1, <1>3, <1>5, <2>1, <2>2 DEF After
    <3>2. Log!After(since) = None
      BY <1>1, <1>3, <1>5, <2>1, <2>2 DEF Log!After
    <3> QED
      BY <3>1, <3>2
  <2>3. CASE start >= 0
    <3>1. After(since) = [i \in 1 .. size - start |-> EntryAt(start + i - 1)]
      BY <1>1, <1>3, <1>5, <2>1, <2>3 DEF After
    <3>2. Log!After(since) = SubSeq(Window, start + 1, size)
      BY <1>1, <1>2, <1>3, <1>5, <2>1, <2>3 DEF Log!After
    <3> DEFINE t == [i \in 1 .. size - start |-> EntryAt(start + i - 1)]
               u == SubSeq(Window, start + 1, size)
    <3>3. /\ start \in Nat /\ start + 1 \in Int /\ start < size
          /\ \A i \in start + 1 .. size : Window[i] \in Envelope
      BY <1>1, <1>2, <1>3, <1>5, <2>3
    <3> HIDE DEF start
    <3>4. /\ u \in Seq(Envelope) /\ Len(u) = size - start
          /\ \A i \in 1 .. size - start : u[i] = Window[start + i]
      <4>1. /\ u \in Seq(Envelope)
            /\ Len(u) = IF start + 1 <= size THEN size - (start + 1) + 1 ELSE 0
            /\ \A i \in 1 .. size - (start + 1) + 1 : u[i] = Window[(start + 1) + i - 1]
        BY <1>1, <3>3, SubSeqProperties
      <4> HIDE DEF u
      <4> QED
        BY <1>1, <3>3, <4>1
    <3>5. \A i \in 1 .. size - start : Window[start + i] = EntryAt(start + i - 1)
      <4>1. \A j \in 1 .. size : Window[j] = EntryAt(j - 1)
        BY DEF Window
      <4>2. ASSUME NEW i \in 1 .. size - start
            PROVE  Window[start + i] = EntryAt(start + i - 1)
        <5> DEFINE j == start + i
        <5>1. j \in 1 .. size
          BY <1>1, <3>3
        <5>2. Window[j] = EntryAt(j - 1)
          BY <4>1, <5>1
        <5>3. j - 1 = start + i - 1
          BY <1>1, <3>3
        <5> QED
          BY <5>2, <5>3
      <4> QED
        BY <4>2
    <3>6. t \in Seq(Envelope) /\ Len(t) = size - start
      <4>1. \A i \in 1 .. size - start : EntryAt(start + i - 1) \in Envelope
        BY <1>1, <3>3 DEF JournalInv, Filled
      <4> QED
        BY <1>1, <3>3, <4>1
    <3>7. \A i \in 1 .. Len(t) : t[i] = u[i]
      BY <3>4, <3>5, <3>6
    <3>8. t = u
      <4> HIDE DEF t, u
      <4> QED
        BY <3>4, <3>6, <3>7, SeqEqual
    <3> QED
      BY <3>1, <3>2, <3>8
  <2> QED
    BY <1>1, <2>2, <2>3
<1> QED
  BY <1>1, <1>3, <1>4, <1>5

(* after() of the ring returns what after() of the log does, for every cursor. *)
THEOREM JournalReplayIsExact == Spec => []ReplayIsExact
BY ReplayFollows, InvHolds, PTL

--------------------------------------------------------------------------------
(* Pages.  What page() collects from the newest envelope down is compared   *)
(* with what the log selects from the oldest up: at each offset the walk has *)
(* seen the part of the selection that lies above it.  Induction over the    *)
(* ring's length is by the least counterexample.                             *)
LEMMA LeastExists ==
  ASSUME NEW T, T \subseteq Nat, T # {}
  PROVE  \E x \in T : \A y \in T : x <= y
<1>1. PICK x \in T : \A y \in T : <<y, x>> \notin OpToRel(<, Nat)
  BY NatLessThanWellFounded, WFMin
<1>2. ASSUME NEW y \in T PROVE x <= y
  <2>1. ~ (y < x)
    BY <1>1 DEF OpToRel
  <2> QED
    BY <2>1
<1> QED
  BY <1>2

(* g lists what is chosen of the first i elements, for each i up to n. *)
Lists(g, s, I, n) ==
  g = [i \in 0 .. n |->
         IF i = 0 THEN << >>
         ELSE IF i \in I THEN Append(g[i - 1], s[i]) ELSE g[i - 1]]

LEMMA ListsExist ==
  ASSUME NEW s, NEW I, NEW n \in Nat
  PROVE  \E g : Lists(g, s, I, n)
<1> DEFINE T == {m \in Nat : ~ \E g : Lists(g, s, I, m)}
<1> SUFFICES ASSUME T # {} PROVE FALSE
  OBVIOUS
<1>1. PICK m \in T : \A y \in T : m <= y
  BY LeastExists
<1>2. \E g : Lists(g, s, I, 0)
  <2> DEFINE h == [i \in 0 .. 0 |-> << >>]
  <2>1. Lists(h, s, I, 0)
    BY DEF Lists
  <2> QED
    BY <2>1
<1>3. m # 0 /\ m \in Nat /\ m - 1 \in Nat
  BY <1>2
<1>4. PICK g : Lists(g, s, I, m - 1)
  BY <1>1, <1>3
<1> DEFINE last == IF m \in I THEN Append(g[m - 1], s[m]) ELSE g[m - 1]
           h == [i \in 0 .. m |-> IF i = m THEN last ELSE g[i]]
<1> HIDE DEF last
<1>5. \A i \in 0 .. m - 1 : h[i] = g[i]
  BY <1>3
<1>6. ASSUME NEW i \in 0 .. m
      PROVE h[i] = IF i = 0 THEN << >>
                   ELSE IF i \in I THEN Append(h[i - 1], s[i]) ELSE h[i - 1]
  <2>1. CASE i = m
    BY <2>1, <1>3, <1>5 DEF last
  <2>2. CASE i # m
    <3>1. h[i] = g[i] /\ (i # 0 => h[i - 1] = g[i - 1])
      BY <2>2, <1>3, <1>5
    <3>2. g[i] = IF i = 0 THEN << >>
                 ELSE IF i \in I THEN Append(g[i - 1], s[i]) ELSE g[i - 1]
      <4>1. i \in 0 .. m - 1
        BY <2>2, <1>3
      <4> HIDE DEF h
      <4> QED
        BY <4>1, <1>4 DEF Lists
    <3> HIDE DEF h
    <3> QED
      BY <3>1, <3>2
  <2> QED
    BY <2>1, <2>2
<1>7. Lists(h, s, I, m)
  <2>1. h = [i \in 0 .. m |-> h[i]]
    OBVIOUS
  <2> HIDE DEF h
  <2> QED
    BY <2>1, <1>6 DEF Lists
<1> QED
  BY <1>7

(* What Log!Chosen builds up to, with its last value Chosen(s, I). *)
LEMMA ChosenDef ==
  ASSUME NEW S, NEW s \in Seq(S), NEW I
  PROVE  \E g : Lists(g, s, I, Len(s)) /\ Log!Chosen(s, I) = g[Len(s)]
<1> DEFINE c == CHOOSE g : Lists(g, s, I, Len(s))
<1>1. Lists(c, s, I, Len(s))
  BY ListsExist
<1>2. Log!Chosen(s, I) = c[Len(s)]
  BY DEF Log!Chosen, Lists
<1> HIDE DEF c
<1> QED
  BY <1>1, <1>2

(* The list after one more element. *)
Longer(g, s, I, i) ==
  g[i + 1] = IF i + 1 \in I THEN Append(g[i], s[i + 1]) ELSE g[i]

LEMMA ListsGrow ==
  ASSUME NEW g, NEW s, NEW I, NEW n \in Nat, Lists(g, s, I, n), NEW i \in 0 .. n - 1
  PROVE  Longer(g, s, I, i)
<1>1. \A j \in 0 .. n :
        g[j] = IF j = 0 THEN << >>
               ELSE IF j \in I THEN Append(g[j - 1], s[j]) ELSE g[j - 1]
  BY DEF Lists
<1>2. i + 1 \in 0 .. n /\ i + 1 # 0 /\ (i + 1) - 1 = i
  OBVIOUS
<1> QED
  BY <1>1, <1>2 DEF Longer

LEMMA ListsTyped ==
  ASSUME NEW S, NEW s \in Seq(S), NEW I, NEW g, Lists(g, s, I, Len(s))
  PROVE  \A i \in 0 .. Len(s) : g[i] \in Seq(S)
<1>1. \A i \in 0 .. Len(s) :
        g[i] = IF i = 0 THEN << >>
               ELSE IF i \in I THEN Append(g[i - 1], s[i]) ELSE g[i - 1]
  BY DEF Lists
<1> DEFINE T == {i \in 0 .. Len(s) : g[i] \notin Seq(S)}
<1> SUFFICES ASSUME T # {} PROVE FALSE
  OBVIOUS
<1>2. T \subseteq Nat
  OBVIOUS
<1>3. PICK i \in T : \A y \in T : i <= y
  <2> HIDE DEF T
  <2> QED
    BY <1>2, LeastExists
<1>4. g[0] \in Seq(S)
  <2>1. g[0] = << >>
    BY <1>1
  <2> QED
    BY <2>1
<1>5. i \in 1 .. Len(s)
  BY <1>4
<1>6. i - 1 \in 0 .. Len(s) /\ i - 1 \notin T
  BY <1>3, <1>5
<1>7. g[i - 1] \in Seq(S) /\ s[i] \in S
  BY <1>5, <1>6
<1>8. g[i] = Append(g[i - 1], s[i]) \/ g[i] = g[i - 1]
  <2>1. i \in 0 .. Len(s) /\ i # 0
    BY <1>5
  <2> QED
    BY <1>1, <2>1
<1>9. Append(g[i - 1], s[i]) \in Seq(S)
  <2> DEFINE h == g[i - 1]
  <2>1. h \in Seq(S)
    BY <1>7
  <2> HIDE DEF h
  <2>2. Append(h, s[i]) \in Seq(S)
    BY <1>7, <2>1
  <2> QED
    BY <2>2 DEF h
<1> QED
  BY <1>7, <1>8, <1>9

(* The walk of Page down to offset m. *)
Empty == [items |-> << >>, next |-> None, stopped |-> FALSE]
Seen(s, e, before, limit, kinds) ==
  IF s.stopped \/ e.seq >= before \/ e.frame \notin kinds THEN s
  ELSE IF Len(s.items) < limit THEN [s EXCEPT !.items = <<e>> \o @]
  ELSE [s EXCEPT !.next = s.items[1].seq, !.stopped = TRUE]
Wanted(e, before, kinds) == ~(e.seq >= before) /\ e.frame \in kinds
Walks(a, m, before, limit, kinds) ==
  a = [i \in m .. size |->
         IF i = size THEN Empty ELSE Seen(a[i + 1], EntryAt(i), before, limit, kinds)]

LEMMA WalkExists ==
  ASSUME size \in Nat, NEW before, NEW limit, NEW kinds
  PROVE  \E a : Walks(a, 0, before, limit, kinds)
<1> DEFINE Has(k) == \E a : Walks(a, size - k, before, limit, kinds)
           T == {k \in 0 .. size : ~Has(k)}
<1>1. ASSUME T = {} PROVE \E a : Walks(a, 0, before, limit, kinds)
  <2>1. size \in 0 .. size /\ size - size = 0
    OBVIOUS
  <2>2. Has(size)
    <3> HIDE DEF Has
    <3> QED
      BY <1>1, <2>1
  <2> QED
    BY <2>1, <2>2
<1> SUFFICES ASSUME T # {} PROVE FALSE
  BY <1>1
<1>2. T \subseteq Nat
  OBVIOUS
<1>3. PICK k \in T : \A y \in T : k <= y
  <2> HIDE DEF T
  <2> QED
    BY <1>2, LeastExists
<1>4. Has(0)
  <2> DEFINE h == [i \in size .. size |-> Empty]
  <2>1. Walks(h, size - 0, before, limit, kinds)
    BY DEF Walks
  <2> QED
    BY <2>1
<1>5. k \in 1 .. size /\ k - 1 \in 0 .. size /\ Has(k - 1)
  BY <1>3, <1>4
<1> DEFINE m == size - k
<1>6. m \in Nat /\ m < size /\ size - (k - 1) = m + 1
  BY <1>5
<1>7. PICK a : Walks(a, m + 1, before, limit, kinds)
  BY <1>5, <1>6
<1> HIDE DEF m
<1> DEFINE last == Seen(a[m + 1], EntryAt(m), before, limit, kinds)
           h == [i \in m .. size |-> IF i = m THEN last ELSE a[i]]
<1> HIDE DEF last
<1>8. \A i \in m + 1 .. size : h[i] = a[i]
  BY <1>6
<1>9. ASSUME NEW i \in m .. size
      PROVE h[i] = IF i = size THEN Empty ELSE Seen(h[i + 1], EntryAt(i), before, limit, kinds)
  <2>1. CASE i = m
    BY <2>1, <1>6, <1>8 DEF last
  <2>2. CASE i # m
    <3>1. i \in m + 1 .. size /\ h[i] = a[i] /\ (i # size => h[i + 1] = a[i + 1])
      BY <2>2, <1>6, <1>8
    <3>2. a[i] = IF i = size THEN Empty ELSE Seen(a[i + 1], EntryAt(i), before, limit, kinds)
      <4> HIDE DEF h
      <4> QED
        BY <3>1, <1>7 DEF Walks
    <3> HIDE DEF h
    <3> QED
      BY <3>1, <3>2
  <2> QED
    BY <2>1, <2>2
<1>10. Walks(h, m, before, limit, kinds)
  <2>1. h = [i \in m .. size |-> h[i]]
    OBVIOUS
  <2> HIDE DEF h
  <2> QED
    BY <2>1, <1>9 DEF Walks
<1>11. Has(k)
  <2> HIDE DEF h
  <2> QED
    BY <1>10 DEF m
<1> QED
  BY <1>3, <1>11

LEMMA WalkIs ==
  ASSUME size \in Nat, NEW before, NEW limit, NEW kinds
  PROVE  \E a : Walks(a, 0, before, limit, kinds) /\ Walk(before, limit, kinds) = a[0]
<1> DEFINE c == CHOOSE a : Walks(a, 0, before, limit, kinds)
<1>1. Walks(c, 0, before, limit, kinds)
  BY WalkExists
<1>2. Walk(before, limit, kinds) = c[0]
  BY DEF Walk, Walks, Seen, Empty
<1> HIDE DEF c
<1> QED
  BY <1>1, <1>2

(* Parts of sequences. *)
LEMMA SubSeqOf ==
  ASSUME NEW S, NEW s \in Seq(S), NEW a \in Nat \ {0}, NEW b \in Nat, a <= b + 1, b <= Len(s)
  PROVE  /\ SubSeq(s, a, b) \in Seq(S) /\ Len(SubSeq(s, a, b)) = b - a + 1
         /\ \A i \in 1 .. b - a + 1 : SubSeq(s, a, b)[i] = s[a + i - 1]
OBVIOUS

LEMMA Concat ==
  ASSUME NEW S, NEW s \in Seq(S), NEW t \in Seq(S)
  PROVE  /\ s \o t \in Seq(S) /\ Len(s \o t) = Len(s) + Len(t)
         /\ \A i \in 1 .. Len(s) : (s \o t)[i] = s[i]
         /\ \A i \in 1 .. Len(t) : (s \o t)[Len(s) + i] = t[i]
OBVIOUS

LEMMA SubSeqGrows ==
  ASSUME NEW S, NEW s \in Seq(S), NEW a \in 1 .. Len(s)
  PROVE  <<s[a]>> \o SubSeq(s, a + 1, Len(s)) = SubSeq(s, a, Len(s))
<1> DEFINE v == <<s[a]>>
           t == SubSeq(s, a + 1, Len(s))
           u == SubSeq(s, a, Len(s))
<1>1. v \in Seq(S) /\ Len(v) = 1 /\ v[1] = s[a]
  OBVIOUS
<1>2. /\ t \in Seq(S) /\ Len(t) = Len(s) - (a + 1) + 1
      /\ \A i \in 1 .. Len(s) - (a + 1) + 1 : t[i] = s[(a + 1) + i - 1]
  BY SubSeqOf
<1>3. /\ u \in Seq(S) /\ Len(u) = Len(s) - a + 1
      /\ \A i \in 1 .. Len(s) - a + 1 : u[i] = s[a + i - 1]
  BY SubSeqOf
<1> HIDE DEF v, t, u
<1>4. /\ v \o t \in Seq(S) /\ Len(v \o t) = Len(v) + Len(t)
      /\ \A i \in 1 .. Len(v) : (v \o t)[i] = v[i]
      /\ \A i \in 1 .. Len(t) : (v \o t)[Len(v) + i] = t[i]
  <2>1. v \in Seq(S) /\ t \in Seq(S)
    BY <1>1, <1>2
  <2> QED
    BY <2>1, Concat
<1>5. Len(s) \in Nat /\ a \in Nat \ {0} /\ a <= Len(s)
  OBVIOUS
<1>6. Len(v \o t) = Len(u) /\ Len(u) = Len(t) + 1 /\ Len(t) \in Nat
  BY <1>1, <1>2, <1>3, <1>4, <1>5
<1>7. ASSUME NEW i \in 1 .. Len(u) PROVE (v \o t)[i] = u[i]
  <2>1. u[i] = s[a + i - 1]
    BY <1>3
  <2>2. CASE i = 1
    BY <1>1, <1>4, <1>5, <2>1, <2>2
  <2>3. CASE i # 1
    <3>1. i - 1 \in 1 .. Len(t) /\ 1 + (i - 1) = i /\ (a + 1) + (i - 1) - 1 = a + i - 1
      BY <1>5, <1>6, <2>3
    <3>2. t[i - 1] = s[a + i - 1]
      BY <1>2, <3>1
    <3> QED
      BY <1>1, <1>4, <2>1, <3>1, <3>2
  <2> QED
    BY <2>2, <2>3
<1>8. v \o t = u
  BY <1>3, <1>4, <1>6, <1>7, SeqEqual
<1> QED
  BY <1>8 DEF v, t, u

(* What the walk has found once c of the L chosen are still to come. *)
Found(w, c, limit) ==
  LET L == Len(w) IN
  IF L - c <= limit
  THEN [items |-> SubSeq(w, c + 1, L), next |-> None, stopped |-> FALSE]
  ELSE [items |-> SubSeq(w, L - limit + 1, L), next |-> w[L - limit + 1].seq, stopped |-> TRUE]

(* A page that has room takes e and then holds q. *)
Adds(x, e, before, limit, kinds, q) ==
  Seen([items |-> x, next |-> None, stopped |-> FALSE], e, before, limit, kinds) =
    [items |-> q, next |-> None, stopped |-> FALSE]

LEMMA SeenAdds ==
  ASSUME NEW x, NEW e, NEW before \in Nat, NEW limit \in Nat, NEW kinds,
         Wanted(e, before, kinds), Len(x) < limit, NEW q, q = <<e>> \o x
  PROVE  Adds(x, e, before, limit, kinds, q)
<1> DEFINE f == [items |-> x, next |-> None, stopped |-> FALSE]
           a == [f EXCEPT !.items = q]
           b == [items |-> q, next |-> None, stopped |-> FALSE]
<1>1. Seen(f, e, before, limit, kinds) = a
  BY DEF Seen, Wanted
<1>2. DOMAIN a = {"items", "next", "stopped"} /\ DOMAIN b = {"items", "next", "stopped"}
  OBVIOUS
<1>3. a.items = b.items /\ a.next = b.next /\ a.stopped = b.stopped
  OBVIOUS
<1>4. a = [i \in DOMAIN a |-> a[i]] /\ b = [i \in DOMAIN b |-> b[i]]
  OBVIOUS
<1> HIDE DEF a, b
<1>5. a = b
  BY <1>2, <1>3, <1>4
<1> QED
  BY <1>1, <1>5 DEF b, Adds

LEMMA SeenStops ==
  ASSUME NEW x, NEW y, NEW e, NEW before \in Nat, NEW limit \in Nat, NEW kinds,
         Wanted(e, before, kinds), ~(Len(x) < limit)
  PROVE  Seen([items |-> x, next |-> y, stopped |-> FALSE], e, before, limit, kinds) =
           [items |-> x, next |-> x[1].seq, stopped |-> TRUE]
<1> DEFINE f == [items |-> x, next |-> y, stopped |-> FALSE]
           n == x[1].seq
           a == [f EXCEPT !.next = n, !.stopped = TRUE]
           b == [items |-> x, next |-> n, stopped |-> TRUE]
<1>1. Seen(f, e, before, limit, kinds) = a
  BY DEF Seen, Wanted
<1> HIDE DEF n
<1>2. DOMAIN a = {"items", "next", "stopped"} /\ DOMAIN b = {"items", "next", "stopped"}
  OBVIOUS
<1>3. a.items = b.items /\ a.next = b.next /\ a.stopped = b.stopped
  OBVIOUS
<1>4. a = [i \in DOMAIN a |-> a[i]] /\ b = [i \in DOMAIN b |-> b[i]]
  OBVIOUS
<1> HIDE DEF a, b
<1>5. a = b
  BY <1>2, <1>3, <1>4
<1> QED
  BY <1>1, <1>5 DEF b, n

(* e is the next of the chosen, w[c]. *)
Grows(w, c, e, before, limit, kinds) ==
  Seen(Found(w, c, limit), e, before, limit, kinds) = Found(w, c - 1, limit)

LEMMA FoundGrows ==
  ASSUME NEW w \in Seq(Envelope), NEW c \in 1 .. Len(w), NEW limit \in Nat \ {0},
         NEW before \in Nat, NEW kinds, NEW e, e = w[c], Wanted(e, before, kinds)
  PROVE  Grows(w, c, e, before, limit, kinds)
<1> DEFINE L == Len(w)
           s == SubSeq(w, c + 1, L)
<1>1. L \in Nat /\ c \in Nat \ {0} /\ c <= L /\ (c - 1) + 1 = c
  OBVIOUS
<1>2. s \in Seq(Envelope) /\ Len(s) = L - c /\ (c < L => s[1] = w[c + 1])
  <2>1. /\ s \in Seq(Envelope) /\ Len(s) = L - (c + 1) + 1
        /\ \A i \in 1 .. L - (c + 1) + 1 : s[i] = w[(c + 1) + i - 1]
    BY <1>1, SubSeqOf
  <2> HIDE DEF s
  <2>2. c < L => 1 \in 1 .. L - (c + 1) + 1 /\ (c + 1) + 1 - 1 = c + 1
    BY <1>1
  <2> QED
    BY <1>1, <2>1, <2>2
<1>3. <<e>> \o s = SubSeq(w, c, L)
  BY SubSeqGrows
<1> SUFFICES Seen(Found(w, c, limit), e, before, limit, kinds) = Found(w, c - 1, limit)
  BY DEF Grows
<1> HIDE DEF L, s
<1>4. CASE L - c > limit
  <2>1. ~(L - c <= limit) /\ ~(L - (c - 1) <= limit)
    BY <1>1, <1>4
  <2>2. Found(w, c, limit) = Found(w, c - 1, limit) /\ Found(w, c, limit).stopped
    BY <2>1 DEF Found, L
  <2> QED
    BY <2>2 DEF Seen
<1>5. CASE L - c < limit
  <2>1. L - c <= limit /\ L - (c - 1) <= limit
    BY <1>1, <1>5
  <2>2. Found(w, c, limit) = [items |-> s, next |-> None, stopped |-> FALSE]
    BY <2>1 DEF Found, L, s
  <2>3. Found(w, c - 1, limit) = [items |-> SubSeq(w, c, L), next |-> None, stopped |-> FALSE]
    BY <1>1, <2>1 DEF Found, L
  <2>4. Seen(Found(w, c, limit), e, before, limit, kinds) =
          [items |-> SubSeq(w, c, L), next |-> None, stopped |-> FALSE]
    <3>1. Len(s) < limit
      BY <1>2, <1>5
    <3>2. Adds(s, e, before, limit, kinds, SubSeq(w, c, L))
      BY <1>3, <3>1, SeenAdds
    <3> QED
      BY <2>2, <3>2 DEF Adds
  <2> QED
    BY <2>3, <2>4
<1>6. CASE L - c = limit
  <2>1. L - c <= limit /\ ~(L - (c - 1) <= limit) /\ L - limit + 1 = c + 1 /\ c < L
    BY <1>1, <1>6
  <2>2. Found(w, c, limit) = [items |-> s, next |-> None, stopped |-> FALSE]
    BY <2>1 DEF Found, L, s
  <2>3. Found(w, c - 1, limit) = [items |-> s, next |-> w[c + 1].seq, stopped |-> TRUE]
    BY <2>1 DEF Found, L, s
  <2>4. Seen(Found(w, c, limit), e, before, limit, kinds) =
          [items |-> s, next |-> s[1].seq, stopped |-> TRUE]
    <3>1. ~(Len(s) < limit)
      BY <1>1, <1>2, <1>6
    <3> QED
      BY <2>2, <3>1, SeenStops
  <2> QED
    BY <1>2, <2>1, <2>3, <2>4
<1> QED
  BY <1>1, <1>4, <1>5, <1>6

(* What the walk has seen from offset i up, against the lists of the chosen: *)
(* they begin what is chosen in the end, and the walk found the rest of it.  *)
Caught(a, g, w, limit, i) ==
  /\ Len(g[i]) <= Len(w)
  /\ \A k \in 1 .. Len(g[i]) : g[i][k] = w[k]
  /\ a[i] = Found(w, Len(g[i]), limit)

Matches(before, kinds) ==
  {p \in DOMAIN Window : Window[p].seq < before /\ Window[p].frame \in kinds}

LEMMA OneMore ==
  ASSUME NEW w \in Seq(Envelope), NEW h \in Seq(Envelope), NEW f \in Seq(Envelope),
         NEW e \in Envelope, f = Append(h, e),
         NEW before \in Nat, NEW limit \in Nat \ {0}, NEW kinds,
         Wanted(e, before, kinds),
         Len(f) <= Len(w), \A k \in 1 .. Len(f) : f[k] = w[k]
  PROVE  /\ Len(h) <= Len(w) /\ \A k \in 1 .. Len(h) : h[k] = w[k]
         /\ Len(h) = Len(f) - 1 /\ Grows(w, Len(f), e, before, limit, kinds)
<1> DEFINE c == Len(f)
<1>1. /\ c = Len(h) + 1 /\ Len(h) \in Nat /\ f[c] = e
      /\ \A k \in 1 .. Len(h) : f[k] = h[k] /\ k \in 1 .. Len(f)
  OBVIOUS
<1>2. c \in 1 .. Len(w) /\ c - 1 = Len(h)
  BY <1>1
<1>3. e = w[c]
  BY <1>1, <1>2
<1>4. Len(h) <= Len(w) /\ \A k \in 1 .. Len(h) : h[k] = w[k]
  BY <1>1, <1>2
<1> HIDE DEF c
<1>5. Grows(w, c, e, before, limit, kinds)
  BY <1>2, <1>3, FoundGrows
<1> QED
  BY <1>2, <1>4, <1>5 DEF c

LEMMA CaughtStep ==
  ASSUME size \in Nat, Window \in Seq(Envelope), NEW before \in Nat, NEW limit \in Nat \ {0},
         NEW kinds, NEW a, Walks(a, 0, before, limit, kinds),
         NEW g, Lists(g, Window, Matches(before, kinds), size), NEW w \in Seq(Envelope),
         NEW i \in 0 .. size - 1, g[i] \in Seq(Envelope),
         Caught(a, g, w, limit, i + 1)
  PROVE  Caught(a, g, w, limit, i)
<1> DEFINE W == Window
           M == Matches(before, kinds)
           e == EntryAt(i)
           h == g[i]
           f == g[i + 1]
<1>1. i + 1 \in 1 .. size /\ i + 1 \in 0 .. size /\ i \in 0 .. size /\ (i + 1) - 1 = i
  OBVIOUS
<1>2. Len(W) = size /\ DOMAIN W = 1 .. size /\ W[i + 1] = e
  BY <1>1 DEF Window
<1>3. e \in Envelope /\ e.seq \in Nat
  <2>1. \A j \in 1 .. size : W[j] \in Envelope
    <3> HIDE DEF W
    <3>1. W \in Seq(Envelope)
      BY DEF W
    <3> QED
      BY <1>2, <3>1
  <2>2. e \in Envelope
    BY <1>1, <1>2, <2>1
  <2> HIDE DEF e
  <2> QED
    BY <2>2 DEF Envelope
<1>4. a[i] = Seen(a[i + 1], e, before, limit, kinds)
  BY <1>1 DEF Walks
<1>5. f = IF i + 1 \in M THEN Append(h, e) ELSE h
  <2>1. Longer(g, Window, Matches(before, kinds), i)
    BY ListsGrow
  <2> QED
    BY <1>2, <2>1 DEF Longer
<1>6. i + 1 \in M <=> Wanted(e, before, kinds)
  BY <1>1, <1>2, <1>3 DEF Matches, Wanted
<1>7. /\ Len(f) <= Len(w) /\ (\A k \in 1 .. Len(f) : f[k] = w[k])
      /\ a[i + 1] = Found(w, Len(f), limit)
  BY DEF Caught
<1>8. h \in Seq(Envelope)
  OBVIOUS
<1> SUFFICES /\ Len(h) <= Len(w) /\ (\A k \in 1 .. Len(h) : h[k] = w[k])
             /\ a[i] = Found(w, Len(h), limit)
  BY DEF Caught
<1> HIDE DEF W, M, e, h, f
<1>9. CASE i + 1 \notin M
  <2>1. f = h /\ (e.seq >= before \/ e.frame \notin kinds)
    BY <1>5, <1>6, <1>9 DEF Wanted
  <2>2. Seen(a[i + 1], e, before, limit, kinds) = a[i + 1]
    BY <2>1 DEF Seen
  <2> QED
    BY <1>4, <1>7, <2>1, <2>2
<1>10. CASE i + 1 \in M
  <2>1. f = Append(h, e) /\ f \in Seq(Envelope) /\ Wanted(e, before, kinds)
    BY <1>3, <1>5, <1>6, <1>8, <1>10
  <2>2. /\ Len(h) <= Len(w) /\ \A k \in 1 .. Len(h) : h[k] = w[k]
        /\ Len(h) = Len(f) - 1 /\ Grows(w, Len(f), e, before, limit, kinds)
    BY <1>3, <1>7, <1>8, <2>1, OneMore
  <2> QED
    BY <1>4, <1>7, <2>2 DEF Grows
<1> QED
  BY <1>9, <1>10

LEMMA CaughtAll ==
  ASSUME size \in Nat, Window \in Seq(Envelope), NEW before \in Nat, NEW limit \in Nat \ {0},
         NEW kinds, NEW a, Walks(a, 0, before, limit, kinds),
         NEW g, Lists(g, Window, Matches(before, kinds), size),
         \A i \in 0 .. size : g[i] \in Seq(Envelope)
  PROVE  Caught(a, g, g[size], limit, 0)
<1> DEFINE w == g[size]
           C(i) == Caught(a, g, w, limit, i)
           T == {k \in 0 .. size : ~C(size - k)}
<1>1. w \in Seq(Envelope)
  OBVIOUS
<1>2. C(size)
  <2>1. a[size] = Empty
    BY DEF Walks
  <2>2. Found(w, Len(w), limit) = Empty
    <3>1. Len(w) \in Nat /\ Len(w) - Len(w) <= limit
      BY <1>1
    <3>2. SubSeq(w, Len(w) + 1, Len(w)) = << >>
      BY <1>1, <3>1
    <3> HIDE DEF w
    <3> QED
      BY <3>1, <3>2 DEF Found, Empty
  <2>3. Len(w) <= Len(w)
    BY <1>1
  <2> QED
    BY <2>1, <2>2, <2>3 DEF Caught
<1>3. ASSUME NEW i \in 0 .. size - 1, C(i + 1) PROVE C(i)
  <2>1. g[i] \in Seq(Envelope)
    OBVIOUS
  <2>2. Caught(a, g, w, limit, i + 1)
    BY <1>3
  <2> HIDE DEF w
  <2> QED
    BY <1>1, <2>1, <2>2, CaughtStep
<1> HIDE DEF C
<1> SUFFICES ASSUME ~C(0) PROVE FALSE
  BY DEF C
<1>4. T # {}
  <2>1. size \in 0 .. size /\ size - size = 0
    OBVIOUS
  <2> QED
    BY <2>1
<1>5. T \subseteq Nat
  OBVIOUS
<1>6. PICK k \in T : \A y \in T : k <= y
  <2> HIDE DEF T
  <2> QED
    BY <1>4, <1>5, LeastExists
<1>7. k \in 0 .. size /\ ~C(size - k)
  BY <1>6
<1>8. k # 0
  <2>1. size - 0 = size
    OBVIOUS
  <2> QED
    BY <1>2, <1>7, <2>1
<1>9. k - 1 \in 0 .. size /\ k - 1 \notin T
  <2>1. k - 1 \in 0 .. size /\ ~(k <= k - 1)
    BY <1>7, <1>8
  <2> HIDE DEF T
  <2> QED
    BY <1>6, <2>1
<1>10. C(size - (k - 1))
  BY <1>9
<1>11. size - k \in 0 .. size - 1 /\ size - (k - 1) = (size - k) + 1
  BY <1>7, <1>8
<1> QED
  BY <1>3, <1>7, <1>10, <1>11

LEMMA PagesFollow == JournalInv => PagesAreExact
<1> SUFFICES ASSUME JournalInv,
                    NEW before \in 1 .. nextSeq, NEW limit \in 1 .. Capacity, NEW kinds \in SUBSET Frame
             PROVE  Page(before, limit, kinds) = Log!Page(before, limit, kinds)
  BY DEF PagesAreExact
<1>1. size \in Nat /\ before \in Nat /\ limit \in Nat \ {0}
  BY DEF JournalInv, TypeOK
<1>2. Window \in Seq(Envelope) /\ Len(Window) = size
  <2>1. \A i \in 1 .. size : EntryAt(i - 1) \in Envelope
    <3>1. \A i \in 1 .. size : i - 1 \in 0 .. size - 1
      BY <1>1
    <3> QED
      BY <3>1 DEF JournalInv, Filled
  <2> QED
    BY <1>1, <2>1 DEF Window
<1> DEFINE M == Matches(before, kinds)
<1>3. PICK g : Lists(g, Window, M, Len(Window)) /\ Log!Chosen(Window, M) = g[Len(Window)]
  BY <1>2, ChosenDef
<1>4. \A i \in 0 .. size : g[i] \in Seq(Envelope)
  BY <1>2, <1>3, ListsTyped
<1>5. PICK a : Walks(a, 0, before, limit, kinds) /\ Walk(before, limit, kinds) = a[0]
  BY <1>1, WalkIs
<1> DEFINE w == g[size]
           L == Len(w)
<1>6. Caught(a, g, w, limit, 0)
  BY <1>1, <1>2, <1>3, <1>4, <1>5, CaughtAll
<1>7. Len(g[0]) = 0
  <2>1. g[0] = << >>
    BY <1>1, <1>2, <1>3 DEF Lists
  <2> QED
    BY <2>1
<1>8. Walk(before, limit, kinds) = Found(w, 0, limit)
  BY <1>5, <1>6, <1>7 DEF Caught
<1>9. w \in Seq(Envelope) /\ L \in Nat
  BY <1>1, <1>4
<1>10. Log!Chosen(Window, M) = w
  BY <1>2, <1>3
<1>11. Log!Page(before, limit, kinds) =
         LET items == IF L <= limit THEN w ELSE SubSeq(w, L - limit + 1, L)
         IN [items |-> items, next |-> IF L > limit THEN items[1].seq ELSE None]
  BY <1>10 DEF Log!Page, Matches
<1> HIDE DEF w, L
<1>12. CASE L <= limit
  <2>1. L - 0 <= limit /\ ~(L > limit) /\ 0 + 1 = 1
    BY <1>1, <1>9, <1>12
  <2>2. Found(w, 0, limit) = [items |-> SubSeq(w, 1, L), next |-> None, stopped |-> FALSE]
    BY <2>1 DEF Found, L
  <2>3. SubSeq(w, 1, L) = w
    BY <1>9 DEF L
  <2>4. Page(before, limit, kinds) = [items |-> w, next |-> None]
    <3>1. Walk(before, limit, kinds) = [items |-> w, next |-> None, stopped |-> FALSE]
      BY <1>8, <2>2, <2>3
    <3> QED
      BY <3>1 DEF Page
  <2> QED
    BY <1>11, <1>12, <2>1, <2>4
<1>13. CASE L > limit
  <2> DEFINE t == SubSeq(w, L - limit + 1, L)
  <2>1. ~(L - 0 <= limit) /\ ~(L <= limit)
    BY <1>1, <1>9, <1>13
  <2>2. Found(w, 0, limit) = [items |-> t, next |-> w[L - limit + 1].seq, stopped |-> TRUE]
    BY <2>1 DEF Found, L
  <2>3. t[1] = w[L - limit + 1]
    <3> DEFINE b == L - limit + 1
    <3>1. b \in Nat \ {0} /\ b <= L + 1 /\ L <= Len(w) /\ L - b + 1 = limit
      BY <1>1, <1>9, <1>13 DEF L
    <3>2. \A i \in 1 .. L - b + 1 : SubSeq(w, b, L)[i] = w[b + i - 1]
      <4> HIDE DEF b
      <4> QED
        BY <1>9, <3>1, SubSeqOf
    <3>3. 1 \in 1 .. L - b + 1 /\ b + 1 - 1 = b
      BY <1>1, <3>1
    <3> QED
      BY <3>2, <3>3
  <2> HIDE DEF t
  <2>4. Page(before, limit, kinds) = [items |-> t, next |-> t[1].seq]
    BY <1>8, <2>2, <2>3 DEF Page
  <2>5. Log!Page(before, limit, kinds) = [items |-> t, next |-> t[1].seq]
    BY <1>11, <1>13, <2>1 DEF t
  <2> QED
    BY <2>4, <2>5
<1> QED
  BY <1>1, <1>9, <1>12, <1>13

(* Every page of the ring is the page of the log: the newest envelopes of the *)
(* wanted kinds before the cursor, and a next cursor exactly when one is left. *)
THEOREM JournalPagesAreExact == Spec => []PagesAreExact
<1>1. Spec => []JournalInv
  BY InvHolds
<1>2. JournalInv => PagesAreExact
  BY PagesFollow
<1> QED
  BY <1>1, <1>2, PTL
================================================================================
