-------------------------- MODULE WorkstationProofs --------------------------
(***************************************************************************)
(* The parts of a workstation, each on its own and then together.  A log   *)
(* on the server is the beginning of the device's, whole when it counts as *)
(* delivered, for files of any length and any number of requests at once;  *)
(* a file that is in its place is the one that the manifest describes, and *)
(* what is kept of a transfer is a part of the object that its ETag names; *)
(* an environment that a script runs in is complete, as long as nobody     *)
(* overstays under the lock and no lock is taken over twice.               *)
(***************************************************************************)
EXTENDS MCWorkstation, LocalRunsProofs, ClientUpdateProofs, WellFoundedInduction,
        SequenceTheorems

(* The log of a run: induction, and pieces of text *)

LEMMA SetInduction ==
    ASSUME NEW S \in SUBSET Nat, 0 \in S, \A n \in S : n + 1 \in S
    PROVE  S = Nat
  <1> DEFINE R == {p \in Nat \X Nat : p[1] < p[2]}
             T == Nat \ S
  <1>1. IsWellFoundedOn(R, Nat)
    BY NatLessThanWellFounded DEF OpToRel
  <1> SUFFICES ASSUME T # {} PROVE FALSE
    OBVIOUS
  <1>2. T \subseteq Nat
    OBVIOUS
  <1>3. PICK x \in T : \A y \in T : <<y, x>> \notin R
    <2> HIDE DEF R, T
    <2> QED
      BY <1>1, <1>2, WFMin
  <1>4. x \in Nat /\ x # 0
    BY <1>3
  <1>5. PICK y \in Nat : x = y + 1
    <2>1. x - 1 \in Nat /\ x = (x - 1) + 1
      BY <1>4
    <2> QED
      BY <2>1
  <1>6. <<y, x>> \in R
    BY <1>4, <1>5
  <1> QED
    BY <1>3, <1>4, <1>5, <1>6

(* Pieces of text are put together from left to right: the recursion of           *)
(* FlattenSeq has a solution, which is built piece by piece.                      *)
LEMMA Flattened ==
    ASSUME NEW seqs \in Seq(Text), Len(seqs) # 0
    PROVE  \E f \in [1..Len(seqs) -> Text] :
             /\ \A i \in 1..Len(seqs) : f[i] = IF i = 1 THEN seqs[i] ELSE f[i - 1] \o seqs[i]
             /\ FlattenSeq(seqs) = f[Len(seqs)]
  <1> DEFINE N == Len(seqs)
             Flat(f, n) == \A i \in 1..n : f[i] = IF i = 1 THEN seqs[i] ELSE f[i - 1] \o seqs[i]
             flatten == CHOOSE f : f = [i \in 1..N |-> IF i = 1 THEN seqs[i]
                                                       ELSE f[i - 1] \o seqs[i]]
             Built == {n \in Nat : n <= N => \E f \in [1..n -> Text] : Flat(f, n)}
  <1>1. FlattenSeq(seqs) = flatten[N]
    BY DEF FlattenSeq
  <1>2. N \in Nat /\ \A i \in 1..N : seqs[i] \in Text
    BY LenProperties, ElementOfSeq
  <1>3. Built = Nat
    <2>1. 0 \in Built
      <3>1. [i \in 1..0 |-> <<>>] \in [1..0 -> Text] /\ Flat([i \in 1..0 |-> <<>>], 0)
        OBVIOUS
      <3> QED
        BY <3>1
    <2>2. ASSUME NEW n \in Built, n + 1 <= N PROVE \E f \in [1..n + 1 -> Text] : Flat(f, n + 1)
      <3>1. n \in Nat /\ n <= N
        BY <1>2, <2>2
      <3>2. PICK f \in [1..n -> Text] : Flat(f, n)
        BY <2>2, <3>1
      <3> DEFINE last == IF n = 0 THEN seqs[1] ELSE f[n] \o seqs[n + 1]
                 g == [i \in 1..n + 1 |-> IF i <= n THEN f[i] ELSE last]
      <3>3. last \in Text
        <4>1. n + 1 \in 1..N
          BY <1>2, <2>2, <3>1
        <4>2. CASE n = 0
          BY <1>2, <4>1, <4>2
        <4>3. CASE n # 0
          <5>1. f[n] \in Text /\ seqs[n + 1] \in Text
            BY <1>2, <3>1, <3>2, <4>1, <4>3
          <5> QED
            BY <4>3, <5>1, ConcatProperties DEF Text
        <4> QED
          BY <4>2, <4>3
      <3>4. g \in [1..n + 1 -> Text]
        <4> HIDE DEF last
        <4> QED
          BY <3>1, <3>2, <3>3
      <3>5. ASSUME NEW i \in 1..n + 1
            PROVE  g[i] = IF i = 1 THEN seqs[i] ELSE g[i - 1] \o seqs[i]
        <4>1. CASE i <= n
          <5>1. i \in 1..n /\ (i # 1 => i - 1 \in 1..n)
            BY <3>1, <3>5, <4>1
          <5>2. g[i] = f[i] /\ (i # 1 => g[i - 1] = f[i - 1])
            BY <3>1, <5>1
          <5> QED
            BY <3>2, <5>1, <5>2
        <4>2. CASE i = n + 1
          <5>1. g[i] = last /\ (n # 0 => g[i - 1] = f[n])
            BY <3>1, <4>2
          <5> QED
            BY <3>1, <4>2, <5>1
        <4> QED
          BY <3>1, <3>5, <4>1, <4>2
      <3> HIDE DEF g
      <3> QED
        BY <3>4, <3>5
    <2> HIDE DEF Flat
    <2>3. \A n \in Built : n + 1 \in Built
      BY <2>2
    <2> HIDE DEF Built
    <2>4. Built \in SUBSET Nat
      BY DEF Built
    <2> QED
      BY <2>1, <2>3, <2>4, SetInduction
  <1>4. PICK f \in [1..N -> Text] : Flat(f, N)
    BY <1>2, <1>3
  <1>5. f = [i \in 1..N |-> IF i = 1 THEN seqs[i] ELSE f[i - 1] \o seqs[i]]
    BY <1>4
  <1>6. flatten = [i \in 1..N |-> IF i = 1 THEN seqs[i] ELSE flatten[i - 1] \o seqs[i]]
    BY <1>5
  <1> HIDE DEF flatten, Flat
  <1> DEFINE Typed == {n \in Nat : n + 1 <= N => flatten[n + 1] \in Text}
  <1>7. Typed = Nat
    <2>1. ASSUME NEW i \in 1..N
          PROVE  flatten[i] = IF i = 1 THEN seqs[i] ELSE flatten[i - 1] \o seqs[i]
      BY <1>6, <2>1
    <2>2. 0 \in Typed
      <3>1. 1 <= N => flatten[1] = seqs[1] /\ seqs[1] \in Text
        BY <1>2, <2>1
      <3> QED
        BY <3>1
    <2>3. ASSUME NEW n \in Typed PROVE n + 1 \in Typed
      <3>1. n \in Nat
        BY <2>3
      <3>2. ASSUME (n + 1) + 1 <= N PROVE flatten[(n + 1) + 1] \in Text
        <4>1. PICK i \in 1..N : i = (n + 1) + 1
          BY <1>2, <3>1, <3>2
        <4>2. i # 1 /\ i - 1 = n + 1 /\ n + 1 <= N
          BY <1>2, <3>1, <4>1
        <4>3. flatten[i] = flatten[i - 1] \o seqs[i]
          BY <2>1, <4>2
        <4>4. flatten[i - 1] \in Text /\ seqs[i] \in Text
          BY <1>2, <2>3, <4>2
        <4>5. flatten[i] \in Text
          BY <4>3, <4>4, ConcatProperties DEF Text
        <4> QED
          BY <4>1, <4>5
      <3> QED
        BY <3>1, <3>2
    <2> HIDE DEF Typed
    <2>4. Typed \in SUBSET Nat
      BY DEF Typed
    <2> QED
      BY <2>2, <2>3, <2>4, SetInduction
  <1>8. ASSUME NEW i \in 1..N PROVE flatten[i] \in Text
    <2>1. PICK n \in Nat : n + 1 = i
      <3>1. i - 1 \in Nat /\ (i - 1) + 1 = i
        BY <1>2, <1>8
      <3> QED
        BY <3>1
    <2>2. n \in Typed
      BY <1>7
    <2> QED
      BY <1>2, <1>8, <2>1, <2>2
  <1>9. flatten \in [1..N -> Text]
    BY <1>6, <1>8
  <1>10. \A i \in 1..N : flatten[i] = IF i = 1 THEN seqs[i] ELSE flatten[i - 1] \o seqs[i]
    BY <1>6
  <1> QED
    BY <1>1, <1>9, <1>10

LEMMA FlattenedIsText ==
    ASSUME NEW seqs \in Seq(Text)
    PROVE  FlattenSeq(seqs) \in Text
  <1>1. CASE Len(seqs) = 0
    <2>1. seqs = <<>> /\ FlattenSeq(seqs) = seqs
      BY <1>1, EmptySeq DEF FlattenSeq
    <2> QED
      BY <2>1, EmptySeq DEF Text
  <1>2. CASE Len(seqs) # 0
    <2>1. Len(seqs) \in Nat /\ Len(seqs) \in 1..Len(seqs)
      BY <1>2, LenProperties
    <2>2. PICK f \in [1..Len(seqs) -> Text] : FlattenSeq(seqs) = f[Len(seqs)]
      BY <1>2, Flattened
    <2> QED
      BY <2>1, <2>2
  <1> QED
    BY <1>1, <1>2

(* What is in one of the pieces is in the whole. *)
LEMMA FlattenedHolds ==
    ASSUME NEW seqs \in Seq(Text), NEW k \in 1..Len(seqs), NEW byte \in ToSet(seqs[k])
    PROVE  byte \in ToSet(FlattenSeq(seqs))
  <1> DEFINE N == Len(seqs)
  <1>1. N \in Nat /\ N # 0 /\ \A i \in 1..N : seqs[i] \in Text
    BY LenProperties, ElementOfSeq
  <1>2. PICK f \in [1..N -> Text] :
          /\ \A i \in 1..N : f[i] = IF i = 1 THEN seqs[i] ELSE f[i - 1] \o seqs[i]
          /\ FlattenSeq(seqs) = f[N]
    BY <1>1, Flattened
  <1> DEFINE Holds == {n \in Nat : k + n <= N => byte \in ToSet(f[k + n])}
  <1>3. \A x \in Text : ToSet(x) = {x[i] : i \in 1..Len(x)} /\ Len(x) \in Nat
    BY LenProperties DEF ToSet, Text
  <1>4. ASSUME NEW x \in Text, NEW y \in Text, byte \in ToSet(x) \/ byte \in ToSet(y)
        PROVE  byte \in ToSet(x \o y)
    <2>1. /\ x \o y \in Text /\ Len(x \o y) = Len(x) + Len(y)
          /\ \A i \in 1..Len(x) + Len(y) :
               (x \o y)[i] = IF i <= Len(x) THEN x[i] ELSE y[i - Len(x)]
      BY ConcatProperties DEF Text
    <2>2. CASE byte \in ToSet(x)
      <3>1. PICK i \in 1..Len(x) : byte = x[i]
        BY <1>3, <2>2
      <3>2. i \in 1..Len(x \o y) /\ (x \o y)[i] = byte
        BY <1>3, <2>1, <3>1
      <3> QED
        BY <1>3, <2>1, <3>2
    <2>3. CASE byte \in ToSet(y)
      <3>1. PICK i \in 1..Len(y) : byte = y[i]
        BY <1>3, <2>3
      <3>2. Len(x) + i \in 1..Len(x \o y) /\ (x \o y)[Len(x) + i] = byte
        BY <1>3, <2>1, <3>1
      <3> QED
        BY <1>3, <2>1, <3>2
    <2> QED
      BY <1>4, <2>2, <2>3
  <1>5. 0 \in Holds
    <2>1. byte \in ToSet(f[k])
      <3>1. CASE k = 1
        BY <1>2, <3>1
      <3>2. CASE k # 1
        <4>1. k - 1 \in 1..N
          BY <1>1, <3>2
        <4>2. f[k] = f[k - 1] \o seqs[k] /\ f[k - 1] \in Text /\ seqs[k] \in Text
          BY <1>1, <1>2, <3>2, <4>1
        <4> QED
          BY <1>4, <4>2
      <3> QED
        BY <3>1, <3>2
    <2> QED
      BY <2>1
  <1>6. ASSUME NEW n \in Holds PROVE n + 1 \in Holds
    <2>1. n \in Nat
      BY <1>6
    <2>2. ASSUME k + (n + 1) <= N PROVE byte \in ToSet(f[k + (n + 1)])
      <3>1. PICK i \in 1..N : i = k + (n + 1)
        BY <1>1, <2>1, <2>2
      <3>2. i # 1 /\ i - 1 = k + n /\ k + n <= N /\ i - 1 \in 1..N
        BY <1>1, <2>1, <3>1
      <3>3. f[i] = f[i - 1] \o seqs[i] /\ f[i - 1] \in Text /\ seqs[i] \in Text
        BY <1>1, <1>2, <3>2
      <3>4. byte \in ToSet(f[i - 1])
        BY <1>6, <3>2
      <3>5. byte \in ToSet(f[i])
        BY <1>4, <3>3, <3>4
      <3> QED
        BY <3>1, <3>5
    <2> QED
      BY <2>1, <2>2
  <1>7. Holds = Nat
    <2>1. Holds \in SUBSET Nat
      OBVIOUS
    <2> HIDE DEF Holds
    <2> QED
      BY <1>5, <1>6, <2>1, SetInduction
  <1>8. PICK n \in Nat : k + n = N
    <2>1. N - k \in Nat /\ k + (N - k) = N
      BY <1>1
    <2> QED
      BY <2>1
  <1>9. n \in Holds
    BY <1>7
  <1> QED
    BY <1>1, <1>2, <1>8, <1>9

-----------------------------------------------------------------------------
(* What is decoded *)

LEMMA DecodedText ==
    ASSUME NEW raw \in Text, raw # <<>>, NEW force \in BOOLEAN
    PROVE  /\ Decoded(raw, force) \in Text
           /\ \/ Decoded(raw, force) = raw
              \/ ~force /\ Decoded(raw, force) = Front(raw)
              \/ "replaced" \in ToSet(Decoded(raw, force))
  <1> DEFINE piece == [i \in DOMAIN raw |-> IF i \in Bad(raw) THEN Replacement ELSE <<raw[i]>>]
  <1>1. Len(raw) \in Nat /\ DOMAIN raw = 1..Len(raw) /\ \A i \in 1..Len(raw) : raw[i] \in Byte
    BY LenProperties, ElementOfSeq DEF Text
  <1>2. Replacement \in Text /\ "replaced" \in ToSet(Replacement)
    <2>1. Replacement[1] = "replaced" /\ DOMAIN Replacement = 1..3
      BY DEF Replacement
    <2>2. Replacement \in Seq(Byte)
      BY DEF Replacement, Byte
    <2> QED
      BY <2>1, <2>2 DEF Text, ToSet
  <1>3. \A i \in 1..Len(raw) : <<raw[i]>> \in Text
    BY <1>1 DEF Text
  <1>4. piece \in [1..Len(raw) -> Text]
    BY <1>1, <1>2, <1>3
  <1>5. piece \in Seq(Text) /\ Len(piece) = Len(raw)
    <2> HIDE DEF piece
    <2> QED
      BY <1>1, <1>4
  <1>6. FlattenSeq(piece) \in Text
    BY <1>5, FlattenedIsText
  <1>7. ASSUME Bad(raw) # {} PROVE "replaced" \in ToSet(FlattenSeq(piece))
    <2>1. PICK i \in 1..Len(raw) : i \in Bad(raw)
      BY <1>1, <1>7 DEF Bad
    <2>2. piece[i] = Replacement /\ i \in 1..Len(piece)
      BY <1>1, <1>5, <2>1
    <2> HIDE DEF piece
    <2> QED
      BY <1>2, <1>5, <2>2, FlattenedHolds
  <1>8. Front(raw) \in Text
    <2>1. Len(raw) - 1 \in Int /\ \A i \in 1..Len(raw) - 1 : raw[i] \in Byte
      BY <1>1
    <2> QED
      BY <2>1, SubSeqProperties DEF Front, Text
  <1>9. \/ Bad(raw) = {} /\ Decoded(raw, force) = raw
        \/ ~force /\ Decoded(raw, force) = Front(raw)
        \/ Bad(raw) # {} /\ Decoded(raw, force) = FlattenSeq(piece)
    BY DEF Decoded
  <1> HIDE DEF piece
  <1>10. Decoded(raw, force) \in Text
    BY <1>6, <1>8, <1>9
  <1>11. \/ Decoded(raw, force) = raw
         \/ ~force /\ Decoded(raw, force) = Front(raw)
         \/ "replaced" \in ToSet(Decoded(raw, force))
    BY <1>7, <1>9, Zenon
  <1> QED
    BY <1>10, <1>11, Zenon

-----------------------------------------------------------------------------
(* Pieces of the device's file *)

(* Bytes of the device's file, from offset on. *)
Held(piece, offset) ==
    /\ offset + Len(piece) <= Len(written)
    /\ \A i \in 1..Len(piece) : piece[i] = written[offset + i]

LEMMA HeldIsPrefix ==
    ASSUME stored \in Text, written \in Text
    PROVE  /\ IsPrefix(stored, written) <=> Held(stored, 0)
           /\ Held(stored, 0) /\ Len(stored) = Len(written) => stored = written
  <1>1. /\ Len(stored) \in Nat /\ Len(written) \in Nat
        /\ \A i \in 1..Len(stored) : stored[i] \in Byte
        /\ \A i \in 1..Len(written) : written[i] \in Byte
    BY LenProperties, ElementOfSeq DEF Text
  <1>2. SubSeq(stored, 1, Len(stored)) = stored
    BY SubSeqFull DEF Text
  <1>3. ASSUME Len(stored) <= Len(written)
        PROVE  SubSeq(written, 1, Len(stored)) = stored
               <=> \A i \in 1..Len(stored) : stored[i] = written[i]
    <2> DEFINE w == SubSeq(written, 1, Len(stored))
    <2>1. \A i \in 1..Len(stored) : written[i] \in Byte
      BY <1>1, <1>3
    <2>2. w \in Seq(Byte) /\ Len(w) = Len(stored) /\ \A i \in 1..Len(stored) : w[i] = written[i]
      <3>1. Len(stored) - 1 + 1 = Len(stored) /\ (Len(stored) = 0 \/ 1 <= Len(stored))
        BY <1>1
      <3>2. /\ w \in Seq(Byte)
            /\ Len(w) = IF 1 <= Len(stored) THEN Len(stored) - 1 + 1 ELSE 0
            /\ \A i \in 1..Len(stored) - 1 + 1 : w[i] = written[1 + i - 1]
        BY <1>1, <2>1, SubSeqProperties
      <3> QED
        BY <1>1, <3>1, <3>2
    <2> HIDE DEF w
    <2>3. ASSUME \A i \in 1..Len(stored) : stored[i] = written[i] PROVE w = stored
      BY <2>2, <2>3, SeqEqual DEF Text
    <2> QED
      BY <2>2, <2>3 DEF w
  <1>4. IsPrefix(stored, written) <=> Held(stored, 0)
    BY <1>1, <1>2, <1>3 DEF IsPrefix, Held
  <1>5. ASSUME Held(stored, 0), Len(stored) = Len(written) PROVE stored = written
    <2>1. \A i \in 1..Len(stored) : stored[i] = written[i]
      BY <1>1, <1>5 DEF Held
    <2> QED
      BY <1>5, <2>1, SeqEqual DEF Text
  <1> QED
    BY <1>4, <1>5

(* What the client sends of its file. *)
LEMMA TheDelta ==
    ASSUME written \in Text, acked \in Nat
    PROVE  /\ Offset \in Nat /\ Offset <= Len(written) /\ Delta \in Text
           /\ Len(Delta) = Len(written) - Offset /\ Held(Delta, Offset)
           /\ Delta # <<>> => Held(Front(Delta), Offset)
  <1>1. Len(written) \in Nat /\ \A i \in 1..Len(written) : written[i] \in Byte
    BY LenProperties, ElementOfSeq DEF Text
  <1>2. Offset \in Nat /\ Offset <= Len(written)
    BY <1>1 DEF Offset
  <1>3. \A i \in Offset + 1..Len(written) : written[i] \in Byte
    BY <1>1, <1>2
  <1>4. /\ Delta \in Seq(Byte)
        /\ Len(Delta) = IF Offset + 1 <= Len(written) THEN Len(written) - (Offset + 1) + 1 ELSE 0
        /\ \A i \in 1..Len(written) - (Offset + 1) + 1 : Delta[i] = written[Offset + 1 + i - 1]
    BY <1>1, <1>2, <1>3, SubSeqProperties DEF Delta
  <1>5. Len(Delta) = Len(written) - Offset
    BY <1>1, <1>2, <1>4
  <1>6. ASSUME NEW i \in 1..Len(Delta) PROVE Delta[i] = written[Offset + i]
    <2>1. i \in 1..Len(written) - (Offset + 1) + 1 /\ Offset + 1 + i - 1 = Offset + i
      BY <1>1, <1>2, <1>5, <1>6
    <2> QED
      BY <1>4, <2>1
  <1>7. Held(Delta, Offset)
    BY <1>1, <1>2, <1>5, <1>6 DEF Held
  <1>8. ASSUME Delta # <<>> PROVE Held(Front(Delta), Offset)
    <2>1. Len(Delta) \in Nat /\ Len(Delta) # 0 /\ \A i \in 1..Len(Delta) : Delta[i] \in Byte
      BY <1>4, <1>8, LenProperties, ElementOfSeq, EmptySeq
    <2>2. /\ Len(Front(Delta)) = IF 1 <= Len(Delta) - 1 THEN Len(Delta) - 1 - 1 + 1 ELSE 0
          /\ \A i \in 1..Len(Delta) - 1 - 1 + 1 : Front(Delta)[i] = Delta[1 + i - 1]
      BY <2>1, SubSeqProperties DEF Front
    <2>3. Len(Front(Delta)) = Len(Delta) - 1
      <3>1. Len(Front(Delta)) = IF 1 <= Len(Delta) - 1 THEN Len(Delta) - 1 - 1 + 1 ELSE 0
        BY <2>2
      <3>2. CASE Len(Delta) = 1
        BY <3>1, <3>2
      <3>3. CASE Len(Delta) # 1
        BY <2>1, <3>1, <3>3
      <3> QED
        BY <3>2, <3>3
    <2>4. ASSUME NEW i \in 1..Len(Delta) - 1 PROVE Front(Delta)[i] = written[Offset + i]
      <3>1. i \in 1..Len(Delta) - 1 - 1 + 1 /\ 1 + i - 1 = i /\ i \in 1..Len(Delta)
        BY <2>1, <2>4
      <3> QED
        BY <1>6, <2>2, <3>1
    <2> QED
      BY <1>1, <1>2, <1>5, <2>1, <2>3, <2>4 DEF Held
  <1> QED
    BY <1>2, <1>4, <1>5, <1>7, <1>8 DEF Text

-----------------------------------------------------------------------------
(* The invariant *)

Transfer == [stage : {"free", "sent", "write", "stored", "conflict"},
             offset : Nat, content : Text, size : Nat]

(* The client waits for one request at a time; what it has delivered is final. *)
CallKept ==
    /\ call # NoSlot => uploader \in {"live", "final", "flush"}
    /\ uploader = "final" => call \in Slot /\ closed
    /\ delivered => closed

(* The server never reports more than it has. *)
SizeKept ==
    /\ acked <= Len(stored)
    /\ \A s \in Slot : request[s].stage \in {"write", "stored", "conflict"} =>
         request[s].size <= Len(stored)

(* The device reports after its last upload; a stream that stops has seen the end. *)
ReportKept ==
    /\ status = "reported" => uploader \in {"ended", "flush", "down"}
    /\ viewer.at # "check" /\ ~viewer.alive => status # "running"
    /\ viewer.at = "done" => ~viewer.alive

(* Whatever is stored or under way is a piece of the device's file, at its place. *)
Placed(r) ==
    /\ r.stage = "sent" => Held(r.content, r.offset)
    /\ r.stage = "write" => Held(r.content, r.size)

HeldKept == Held(stored, 0) /\ \A s \in Slot : Placed(request[s])

(* The last upload takes the rest of the file with it. *)
TakesTheRest(r) ==
    /\ r.stage = "sent" => r.offset + Len(r.content) = Len(written)
    /\ r.stage = "write" => r.size + Len(r.content) = Len(written)
    /\ r.stage = "stored" => Len(stored) = Len(written)

WholeKept ==
    /\ uploader = "final" => TakesTheRest(request[call])
    /\ delivered => Len(stored) = Len(written)
    /\ delivered /\ status = "reported" /\ viewer.at = "done" => viewer.shown = Len(written)

LogInv ==
    LogTypeOK /\ CallKept /\ SizeKept /\ ReportKept /\ (Undisturbed => HeldKept /\ WholeKept)

-----------------------------------------------------------------------------
(* Types *)

LEMMA TransferFields ==
    ASSUME NEW r \in Transfer
    PROVE  /\ r.stage \in {"free", "sent", "write", "stored", "conflict"}
           /\ r.offset \in Nat /\ r.content \in Text /\ r.size \in Nat
           /\ Len(r.content) \in Nat
  BY LenProperties DEF Transfer, Text

LEMMA FreeTransfer == Free \in Transfer /\ Free.stage = "free"
  <1>1. <<>> \in Text
    BY DEF Text
  <1> QED
    BY <1>1 DEF Free, Transfer

LEMMA RequestsTyped == LogTypeOK => request \in [Slot -> Transfer]
  BY DEF LogTypeOK, Transfer

LEMMA LengthsTyped ==
    LogTypeOK => Len(written) \in Nat /\ Len(stored) \in Nat /\ acked \in Nat /\ Offset \in Nat
  BY LenProperties DEF LogTypeOK, Text, Offset

(* The part of the type invariant that is not about requests. *)
Simple ==
    /\ closed \in BOOLEAN
    /\ uploader \in {"running", "live", "final", "report", "ended", "flush", "down"}
    /\ call \in Slot \cup {NoSlot}
    /\ acked \in Nat /\ queued \in BOOLEAN /\ queuedFile \in BOOLEAN
    /\ status \in {"running", "reported", "cancelled"}
    /\ viewer \in [at : {"check", "read", "done"}, alive : BOOLEAN, shown : Nat]
    /\ delivered \in BOOLEAN /\ garbled \in BOOLEAN /\ overlapped \in BOOLEAN

Files == written \in Text /\ Len(written) <= MaxBytes /\ stored \in Text

LEMMA LogTypeParts == LogTypeOK <=> Simple /\ Files /\ request \in [Slot -> Transfer]
  BY DEF LogTypeOK, Simple, Files, Transfer

LEMMA LogTypeParts2 == LogTypeOK' <=> Simple' /\ Files' /\ request' \in [Slot -> Transfer]
  BY DEF LogTypeOK, Simple, Files, Transfer

LEMMA WriterTypes == ASSUME LogTypeOK, Write \/ ScriptEnds \/ EndedByOthers PROVE LogTypeOK'
  <1>1. Simple /\ Files /\ request \in [Slot -> Transfer]
    BY LogTypeParts
  <1>2. CASE Write
    <2>1. PICK byte \in Byte : written' = Append(written, byte)
      BY <1>2 DEF Write, Byte
    <2>2. written' \in Text /\ Len(written') = Len(written) + 1
      BY <1>1, <2>1, AppendProperties DEF Files, Text
    <2>3. Len(written') <= MaxBytes
      BY <1>1, <1>2, <2>2, LengthsTyped, LogAssumption DEF Write
    <2>4. Files' /\ request' = request
      BY <1>1, <1>2, <2>2, <2>3 DEF Write, Files
    <2>5. Simple'
      BY <1>1, <1>2 DEF Write, upload, logHistory, Simple
    <2> QED
      BY <1>1, <2>4, <2>5, LogTypeParts2
  <1>3. CASE ScriptEnds \/ EndedByOthers
    <2>1. Files' /\ request' = request
      BY <1>1, <1>3 DEF ScriptEnds, EndedByOthers, client_log, Files
    <2>2. Simple'
      BY <1>1, <1>3 DEF ScriptEnds, EndedByOthers, client_log, upload, logHistory, Simple
    <2> QED
      BY <1>1, <2>1, <2>2, LogTypeParts2
  <1> QED
    BY <1>2, <1>3

LEMMA SendTypes ==
    ASSUME LogTypeOK, NEW l \in {"live", "final", "flush"}, NEW force \in BOOLEAN, Send(l, force)
    PROVE  LogTypeOK'
  <1>1. Simple /\ Files /\ request \in [Slot -> Transfer]
    BY LogTypeParts
  <1>2. PICK s \in Slot :
          /\ request' = [request EXCEPT ![s] =
               [stage |-> "sent", offset |-> Offset, content |-> Decoded(Delta, force),
                size |-> 0]]
          /\ call' = s
    BY DEF Send
  <1>3. Delta \in Text /\ Delta # <<>> /\ Offset \in Nat
    BY <1>1, TheDelta DEF Send, Files, Simple
  <1>4. PICK c \in Text : c = Decoded(Delta, force)
    BY <1>3, DecodedText
  <1>5. PICK r \in Transfer : r = [stage |-> "sent", offset |-> Offset, content |-> c, size |-> 0]
    BY <1>3 DEF Transfer
  <1>6. request' \in [Slot -> Transfer]
    BY <1>1, <1>2, <1>4, <1>5
  <1>7. Files' /\ UNCHANGED <<closed, acked, queued, queuedFile, status, viewer, delivered,
                              overlapped>>
    BY <1>1 DEF Send, client_log, Files
  <1>8. garbled' \in BOOLEAN /\ uploader' = l /\ call' \in Slot
    BY <1>2 DEF Send
  <1>9. Simple'
    BY <1>1, <1>7, <1>8 DEF Simple
  <1> QED
    BY <1>6, <1>7, <1>9, LogTypeParts2

LEMMA AfterTypes ==
    ASSUME CallKept, call # NoSlot
    PROVE  After \in {"running", "report", "ended"} /\ (After = "report" <=> uploader = "final")
           /\ (After = "running" => uploader = "live") /\ (After = "ended" <=> uploader = "flush")
  BY DEF CallKept, After

LEMMA AnswerTypes ==
    ASSUME LogTypeOK, CallKept, Acknowledged \/ Refused \/ TimesOut
    PROVE  LogTypeOK'
  <1>1. Simple /\ Files /\ request \in [Slot -> Transfer]
    BY LogTypeParts
  <1>2. call # NoSlot /\ call \in Slot /\ After \in {"running", "report", "ended"}
    BY <1>1, AfterTypes DEF Acknowledged, Refused, TimesOut, Simple
  <1>3. PICK r \in Transfer : r = request[call]
    BY <1>1, <1>2
  <1>4. acked' \in Nat
    BY <1>1, <1>3, TransferFields DEF Acknowledged, Refused, TimesOut, Simple
  <1>5. request' \in [Slot -> Transfer]
    BY <1>1, <1>2, FreeTransfer DEF Acknowledged, Refused, TimesOut
  <1>6. Files' /\ UNCHANGED <<closed, status, viewer, garbled, overlapped>>
    BY <1>1 DEF Acknowledged, Refused, TimesOut, client_log, Files
  <1>7. uploader' = After /\ call' = NoSlot
    BY DEF Acknowledged, Refused, TimesOut, Failed
  <1>8. queued' \in BOOLEAN /\ queuedFile' \in BOOLEAN /\ delivered' \in BOOLEAN
    BY <1>1 DEF Acknowledged, Refused, TimesOut, Failed, SaveQueue, Simple
  <1>9. Simple'
    BY <1>1, <1>2, <1>4, <1>6, <1>7, <1>8 DEF Simple
  <1> QED
    BY <1>5, <1>6, <1>9, LogTypeParts2

LEMMA ClientTypes ==
    ASSUME LogTypeOK, NothingToSend \/ Report \/ Killed \/ ClientDies \/ ClientStarts
    PROVE  LogTypeOK'
  <1>1. Simple /\ Files /\ request \in [Slot -> Transfer]
    BY LogTypeParts
  <1>2. Files' /\ request' = request
    BY <1>1 DEF NothingToSend, Report, Killed, ClientDies, ClientStarts, client_log, Files
  <1>3. Simple'
    <2>1. CASE NothingToSend
      <3>1. queued' \in BOOLEAN /\ queuedFile' \in BOOLEAN /\ delivered' \in BOOLEAN
        BY <1>1, <2>1 DEF NothingToSend, SaveQueue, Simple
      <3>2. uploader' \in {"report", uploader}
        BY <2>1 DEF NothingToSend
      <3>3. UNCHANGED <<closed, call, acked, status, viewer, garbled, overlapped>>
        BY <2>1 DEF NothingToSend, client_log
      <3> QED
        BY <1>1, <3>1, <3>2, <3>3 DEF Simple
    <2>2. CASE Report
      BY <1>1, <2>2 DEF Report, client_log, logHistory, Simple
    <2>3. CASE Killed
      BY <1>1, <2>3 DEF Killed, logHistory, Simple
    <2>4. CASE ClientDies
      BY <1>1, <2>4 DEF ClientDies, client_log, logHistory, Simple
    <2>5. CASE ClientStarts
      BY <1>1, <2>5 DEF ClientStarts, client_log, logHistory, Simple
    <2> QED
      BY <2>1, <2>2, <2>3, <2>4, <2>5
  <1> QED
    BY <1>1, <1>2, <1>3, LogTypeParts2

LEMMA ViewerTypes == ASSUME LogTypeOK, CheckAlive \/ ReadOn PROVE LogTypeOK'
  <1>1. Simple /\ Files /\ request \in [Slot -> Transfer]
    BY LogTypeParts
  <1>2. Files' /\ request' = request
    BY <1>1 DEF CheckAlive, ReadOn, client_log, Files
  <1>3. UNCHANGED <<closed, uploader, call, acked, queued, queuedFile, status, delivered,
                    garbled, overlapped>>
    BY DEF CheckAlive, ReadOn, client_log, upload, logHistory
  <1>4. viewer' \in [at : {"check", "read", "done"}, alive : BOOLEAN, shown : Nat]
    <2>1. PICK v \in [at : {"check", "read", "done"}, alive : BOOLEAN, shown : Nat] : v = viewer
      BY <1>1 DEF Simple
    <2>2. CASE CheckAlive
      BY <2>1, <2>2 DEF CheckAlive
    <2>3. CASE ReadOn
      <3>1. PICK n \in Nat : n = Len(stored)
        BY LengthsTyped
      <3>2. \/ viewer' = [v EXCEPT !.shown = n, !.at = IF v.alive THEN "check" ELSE "done"]
            \/ viewer' = NewViewer
        BY <2>1, <2>3, <3>1 DEF ReadOn
      <3>3. [v EXCEPT !.shown = n, !.at = IF v.alive THEN "check" ELSE "done"]
              \in [at : {"check", "read", "done"}, alive : BOOLEAN, shown : Nat]
        OBVIOUS
      <3>4. NewViewer \in [at : {"check", "read", "done"}, alive : BOOLEAN, shown : Nat]
        BY DEF NewViewer
      <3> QED
        BY <3>2, <3>3, <3>4
    <2> QED
      BY <2>2, <2>3
  <1>5. Simple'
    BY <1>1, <1>3, <1>4 DEF Simple
  <1> QED
    BY <1>1, <1>2, <1>5, LogTypeParts2

(* What the measurement finds: a conflict, or the bytes that are new to it. *)
LEMMA Measured ==
    ASSUME LogTypeOK, NEW s \in Slot, Measure(s)
    PROVE  \E r \in Transfer, q \in Transfer :
             /\ r = request[s] /\ r.stage = "sent" /\ q.size = Len(stored)
             /\ request' = [request EXCEPT ![s] = q]
             /\ \/ q.stage = "conflict"
                \/ /\ q.stage = "write" /\ r.offset <= Len(stored)
                   /\ \E known \in Nat :
                        /\ known <= Len(r.content)
                        /\ \/ known = Len(stored) - r.offset
                           \/ known = Len(r.content) /\ known <= Len(stored) - r.offset
                        /\ Len(q.content) = Len(r.content) - known
                        /\ \A i \in 1..Len(q.content) : q.content[i] = r.content[known + i]
  <1>1. PICK r \in Transfer : r = request[s]
    BY RequestsTyped
  <1>2. PICK end \in Nat : end = Len(stored)
    BY LengthsTyped
  <1> DEFINE known == IF end - r.offset < Len(r.content) THEN end - r.offset ELSE Len(r.content)
             refused == \/ r.offset > end
                        \/ SubSeq(stored, r.offset + 1, r.offset + known)
                             # SubSeq(r.content, 1, known)
  <1>3. /\ r.stage = "sent"
        /\ request' = [request EXCEPT ![s] =
             IF refused THEN [r EXCEPT !.stage = "conflict", !.size = end]
             ELSE [r EXCEPT !.stage = "write", !.size = end,
                            !.content = SubSeq(r.content, known + 1, Len(r.content))]]
    <2>1. request' = [request EXCEPT ![s] =
             IF refused THEN [r EXCEPT !.stage = "conflict", !.size = end]
             ELSE [r EXCEPT !.stage = "write", !.size = end,
                            !.content = SubSeq(@, known + 1, Len(@))]]
      BY <1>1, <1>2 DEF Measure
    <2>2. r.stage = "sent"
      BY <1>1 DEF Measure
    <2> QED
      BY <2>1, <2>2
  <1>4. /\ r.offset \in Nat /\ r.content \in Text /\ Len(r.content) \in Nat
        /\ \A i \in 1..Len(r.content) : r.content[i] \in Byte
    BY TransferFields, ElementOfSeq DEF Text
  <1>5. CASE refused
    <2>1. PICK q \in Transfer : q = [r EXCEPT !.stage = "conflict", !.size = end]
      BY DEF Transfer
    <2>2. q.stage = "conflict" /\ q.size = end
      BY <2>1 DEF Transfer
    <2> HIDE DEF refused
    <2> QED
      BY <1>1, <1>2, <1>3, <1>5, <2>1, <2>2
  <1>6. CASE ~refused
    <2>1. r.offset <= end
      BY <1>4, <1>6
    <2>2. /\ known \in Nat /\ known <= Len(r.content)
          /\ \/ known = end - r.offset
             \/ known = Len(r.content) /\ known <= end - r.offset
      BY <1>4, <2>1
    <2> HIDE DEF refused, known
    <2> DEFINE rest == SubSeq(r.content, known + 1, Len(r.content))
    <2>3. \A i \in known + 1..Len(r.content) : r.content[i] \in Byte
      BY <1>4, <2>2
    <2>4. /\ rest \in Seq(Byte)
          /\ Len(rest) = IF known + 1 <= Len(r.content) THEN Len(r.content) - (known + 1) + 1 ELSE 0
          /\ \A i \in 1..Len(r.content) - (known + 1) + 1 : rest[i] = r.content[known + 1 + i - 1]
      BY <1>4, <2>2, <2>3, SubSeqProperties
    <2> HIDE DEF rest
    <2>5. Len(rest) = Len(r.content) - known
      BY <1>4, <2>2, <2>4
    <2>6. ASSUME NEW i \in 1..Len(rest) PROVE rest[i] = r.content[known + i]
      <3>1. i \in 1..Len(r.content) - (known + 1) + 1 /\ known + 1 + i - 1 = known + i
        BY <1>4, <2>2, <2>5, <2>6
      <3> QED
        BY <2>4, <3>1
    <2>7. PICK q \in Transfer : q = [r EXCEPT !.stage = "write", !.size = end, !.content = rest]
      BY <2>4 DEF Transfer, Text
    <2>8. q.stage = "write" /\ q.size = end /\ q.content = rest
      BY <2>7 DEF Transfer
    <2>9. request' = [request EXCEPT ![s] = q]
      BY <1>3, <1>6, <2>7 DEF rest
    <2>10. \A i \in 1..Len(q.content) : q.content[i] = r.content[known + i]
      BY <2>6, <2>8
    <2>11. Len(q.content) = Len(r.content) - known
      BY <2>5, <2>8
    <2>12. PICK k \in Nat : k = known
      BY <2>2
    <2>13. \E m \in Nat :
             /\ m <= Len(r.content)
             /\ \/ m = Len(stored) - r.offset
                \/ m = Len(r.content) /\ m <= Len(stored) - r.offset
             /\ Len(q.content) = Len(r.content) - m
             /\ \A i \in 1..Len(q.content) : q.content[i] = r.content[m + i]
      <3>1. /\ k <= Len(r.content)
            /\ \/ k = Len(stored) - r.offset
               \/ k = Len(r.content) /\ k <= Len(stored) - r.offset
        BY <1>2, <2>2, <2>12
      <3> WITNESS k \in Nat
      <3> QED
        BY <2>10, <2>11, <2>12, <3>1
    <2>14. r.stage = "sent" /\ q.size = Len(stored) /\ r.offset <= Len(stored)
      BY <1>2, <1>3, <2>1, <2>8
    <2> QED
      BY <1>1, <2>8, <2>9, <2>13, <2>14
  <1> QED
    BY <1>5, <1>6

(* What is appended. *)
LEMMA Appended ==
    ASSUME LogTypeOK, NEW s \in Slot, AppendRest(s)
    PROVE  \E r \in Transfer, q \in Transfer :
             /\ r = request[s] /\ r.stage = "write"
             /\ request' = [request EXCEPT ![s] = q]
             /\ q.stage = "stored" /\ q.size = Len(stored')
             /\ stored' \in Text /\ Len(stored') = Len(stored) + Len(r.content)
             /\ \A i \in 1..Len(stored') :
                  stored'[i] = IF i <= Len(stored) THEN stored[i] ELSE r.content[i - Len(stored)]
             /\ overlapped' = (overlapped \/ Len(stored) # r.size)
  <1>1. PICK r \in Transfer : r = request[s]
    BY RequestsTyped
  <1>2. r.stage = "write" /\ stored' = stored \o r.content
        /\ overlapped' = (overlapped \/ Len(stored) # r.size)
    BY <1>1 DEF AppendRest
  <1>3. stored' \in Text /\ Len(stored') = Len(stored) + Len(r.content)
        /\ \A i \in 1..Len(stored) + Len(r.content) :
             stored'[i] = IF i <= Len(stored) THEN stored[i] ELSE r.content[i - Len(stored)]
    BY <1>2, LogTypeParts, TransferFields, ConcatProperties DEF Files, Text
  <1>4. PICK n \in Nat : n = Len(stored')
    BY <1>3, LenProperties DEF Text
  <1>5. PICK q \in Transfer : q = [r EXCEPT !.stage = "stored", !.size = n]
    BY DEF Transfer
  <1>6. q.stage = "stored" /\ q.size = n
    BY <1>5 DEF Transfer
  <1>7. request \in [Slot -> Transfer]
    BY RequestsTyped
  <1>8. request' = [request EXCEPT ![s] = q]
    BY <1>1, <1>4, <1>5, <1>7 DEF AppendRest
  <1> QED
    BY <1>1, <1>2, <1>3, <1>4, <1>6, <1>8

LEMMA ServerTypes ==
    ASSUME LogTypeOK, NEW s \in Slot, Measure(s) \/ AppendRest(s) \/ Unheard(s)
    PROVE  LogTypeOK'
  <1>1. Simple /\ Files /\ request \in [Slot -> Transfer]
    BY LogTypeParts
  <1>2. CASE Measure(s)
    <2>1. PICK q \in Transfer : request' = [request EXCEPT ![s] = q]
      BY <1>2, Measured
    <2>2. request' \in [Slot -> Transfer]
      BY <1>1, <2>1
    <2>3. Simple' /\ Files'
      BY <1>1, <1>2 DEF Measure, client_log, upload, logHistory, Simple, Files
    <2> QED
      BY <2>2, <2>3, LogTypeParts2
  <1>3. CASE AppendRest(s)
    <2>1. PICK q \in Transfer : request' = [request EXCEPT ![s] = q] /\ stored' \in Text
      BY <1>3, Appended
    <2>2. request' \in [Slot -> Transfer]
      BY <1>1, <2>1
    <2>3. overlapped' \in BOOLEAN
      BY <1>3 DEF AppendRest
    <2>4. Simple'
      BY <1>1, <1>3, <2>3 DEF AppendRest, client_log, upload, Simple
    <2>5. Files'
      BY <1>1, <1>3, <2>1 DEF AppendRest, client_log, Files
    <2> QED
      BY <2>2, <2>4, <2>5, LogTypeParts2
  <1>4. CASE Unheard(s)
    <2>1. request' \in [Slot -> Transfer]
      BY <1>1, <1>4, FreeTransfer DEF Unheard
    <2>2. Simple' /\ Files'
      BY <1>1, <1>4 DEF Unheard, client_log, upload, logHistory, Simple, Files
    <2> QED
      BY <2>1, <2>2, LogTypeParts2
  <1> QED
    BY <1>2, <1>3, <1>4

LEMMA LogTypes == LogTypeOK /\ CallKept /\ [LogNext]_logVars => LogTypeOK'
  <1> SUFFICES ASSUME LogTypeOK, CallKept, [LogNext]_logVars PROVE LogTypeOK'
    OBVIOUS
  <1>1. CASE Write \/ ScriptEnds \/ EndedByOthers
    BY <1>1, WriterTypes
  <1>2. CASE LiveUpload \/ FinalUpload \/ FlushUpload
    BY <1>2, SendTypes DEF LiveUpload, FinalUpload, FlushUpload
  <1>3. CASE Acknowledged \/ Refused \/ TimesOut
    BY <1>3, AnswerTypes
  <1>4. CASE NothingToSend \/ Report \/ Killed \/ ClientDies \/ ClientStarts
    BY <1>4, ClientTypes
  <1>5. CASE LogServer
    BY <1>5, ServerTypes DEF LogServer
  <1>6. CASE CheckAlive \/ ReadOn
    BY <1>6, ViewerTypes
  <1>7. CASE UNCHANGED logVars
    BY <1>7 DEF logVars, client_log, upload, logHistory, LogTypeOK
  <1> QED
    BY <1>1, <1>2, <1>3, <1>4, <1>5, <1>6, <1>7 DEF LogNext, LogClient

-----------------------------------------------------------------------------
(* Steps that leave the requests alone *)

Alone ==
    \/ Write \/ ScriptEnds \/ EndedByOthers
    \/ NothingToSend \/ Report \/ Killed \/ ClientDies \/ ClientStarts
    \/ CheckAlive \/ ReadOn

Sends ==
    \/ uploader = "running" /\ Send("live", FALSE)
    \/ uploader = "running" /\ closed /\ Send("final", TRUE)
    \/ uploader = "ended" /\ queued /\ Send("flush", TRUE)

LEMMA StepKinds ==
    ASSUME [LogNext]_logVars
    PROVE  \/ Alone \/ Sends
           \/ Acknowledged \/ Refused \/ TimesOut
           \/ \E s \in Slot : Measure(s) \/ AppendRest(s) \/ Unheard(s)
           \/ UNCHANGED logVars
  <1>1. CASE LogClient
    BY <1>1 DEF LogClient, LiveUpload, FinalUpload, FlushUpload, Alone, Sends
  <1>2. CASE LogServer
    BY <1>2 DEF LogServer
  <1> QED
    BY <1>1, <1>2 DEF LogNext, Alone

LEMMA CallStep ==
    ASSUME LogTypeOK, CallKept, [LogNext]_logVars
    PROVE  CallKept'
  <1>1. CASE Write \/ EndedByOthers \/ CheckAlive \/ ReadOn
    BY <1>1 DEF Write, EndedByOthers, CheckAlive, ReadOn, client_log, upload, logHistory, CallKept
  <1>2. CASE ScriptEnds
    BY <1>2 DEF ScriptEnds, upload, logHistory, CallKept
  <1>3. CASE NothingToSend
    <2>1. (uploader' = "report" /\ closed /\ uploader = "running")
          \/ (uploader' = uploader /\ delivered' = delivered)
      BY <1>3 DEF NothingToSend
    <2>2. UNCHANGED <<call, closed>>
      BY <1>3 DEF NothingToSend, client_log
    <2>3. CASE uploader' = "report" /\ closed /\ uploader = "running"
      BY <2>2, <2>3 DEF CallKept
    <2>4. CASE uploader' = uploader /\ delivered' = delivered
      BY <2>2, <2>4 DEF CallKept
    <2> QED
      BY <2>1, <2>3, <2>4
  <1>4. CASE Report
    <2>1. uploader = "report" /\ uploader' = "ended" /\ UNCHANGED <<call, closed, delivered>>
      BY <1>4 DEF Report, client_log, logHistory
    <2> QED
      BY <2>1 DEF CallKept
  <1>5. CASE Killed
    <2>1. /\ uploader = "running" /\ uploader' = "ended" /\ closed'
          /\ UNCHANGED <<call, delivered>>
      BY <1>5 DEF Killed, logHistory
    <2> QED
      BY <2>1 DEF CallKept
  <1>6. CASE ClientDies
    <2>1. uploader' = "down" /\ call' = NoSlot /\ UNCHANGED <<closed, delivered>>
      BY <1>6 DEF ClientDies, client_log, logHistory
    <2> QED
      BY <2>1 DEF CallKept
  <1>7. CASE ClientStarts
    <2>1. /\ uploader = "down" /\ uploader' = "ended"
          /\ UNCHANGED <<call, closed, delivered>>
      BY <1>7 DEF ClientStarts, client_log, logHistory
    <2> QED
      BY <2>1 DEF CallKept
  <1>8. CASE Sends
    <2>1. uploader' \in {"live", "final", "flush"} /\ (uploader' = "final" => closed)
      BY <1>8 DEF Sends, Send
    <2>2. call' \in Slot /\ UNCHANGED <<closed, delivered>>
      BY <1>8 DEF Sends, Send, client_log
    <2> QED
      BY <2>1, <2>2 DEF CallKept
  <1>9. CASE Acknowledged \/ Refused \/ TimesOut
    <2>1. call # NoSlot /\ uploader' = After /\ call' = NoSlot /\ closed' = closed
      BY <1>9 DEF Acknowledged, Refused, TimesOut, Failed, client_log
    <2>2. uploader' # "final"
      BY <2>1, AfterTypes
    <2>3. delivered' = (delivered \/ uploader = "final") \/ delivered' = delivered
      BY <1>9 DEF Acknowledged, Refused, TimesOut, Failed
    <2>4. delivered' => closed'
      BY <2>1, <2>3, Zenon DEF CallKept
    <2> QED
      BY <2>1, <2>2, <2>4 DEF CallKept
  <1>10. ASSUME NEW s \in Slot, Measure(s) \/ AppendRest(s) \/ Unheard(s) PROVE CallKept'
    BY <1>10 DEF Measure, AppendRest, Unheard, client_log, upload, logHistory, CallKept
  <1>11. CASE UNCHANGED logVars
    BY <1>11 DEF logVars, client_log, upload, logHistory, CallKept
  <1> QED
    BY <1>1, <1>2, <1>3, <1>4, <1>5, <1>6, <1>7, <1>8, <1>9, <1>10, <1>11, StepKinds DEF Alone

LEMMA AloneKeeps ==
    ASSUME Alone
    PROVE  UNCHANGED <<request, stored>> /\ (acked' = acked \/ acked' = 0)
  BY DEF Alone, Write, ScriptEnds, EndedByOthers, NothingToSend, Report, Killed, ClientDies,
         ClientStarts, CheckAlive, ReadOn, upload

(* A request that is answered is free; its answer is the new offset. *)
LEMMA AnswerKeeps ==
    ASSUME LogTypeOK, Acknowledged \/ Refused \/ TimesOut
    PROVE  /\ call \in Slot /\ stored' = stored /\ written' = written
           /\ \A t \in Slot : request'[t] = request[t] \/ request'[t].stage = "free"
           /\ \/ acked' = acked
              \/ request[call].stage \in {"stored", "conflict"} /\ acked' = request[call].size
  <1>1. request \in [Slot -> Transfer] /\ call \in Slot
    BY RequestsTyped DEF Acknowledged, Refused, TimesOut, LogTypeOK
  <1>2. request' \in {request, [request EXCEPT ![call] = Free]}
    BY DEF Acknowledged, Refused, TimesOut
  <1>3. \A t \in Slot : request'[t] = request[t] \/ request'[t] = Free
    BY <1>1, <1>2
  <1> QED
    BY <1>1, <1>3, FreeTransfer DEF Acknowledged, Refused, TimesOut, client_log

LEMMA SizeStep ==
    ASSUME LogTypeOK, LogTypeOK', SizeKept, [LogNext]_logVars
    PROVE  SizeKept'
  <1>1. request \in [Slot -> Transfer] /\ Len(stored) \in Nat /\ Len(stored') \in Nat /\ acked \in Nat
    BY RequestsTyped, LengthsTyped, LenProperties DEF LogTypeOK, Text
  <1>2. CASE Alone \/ UNCHANGED logVars
    <2>1. UNCHANGED <<request, stored>> /\ (acked' = acked \/ acked' = 0)
      BY <1>2, AloneKeeps DEF logVars, upload
    <2> QED
      BY <1>1, <2>1 DEF SizeKept
  <1>3. CASE Sends
    <2>1. PICK s \in Slot :
            request' = [request EXCEPT ![s] =
               [stage |-> "sent", offset |-> Offset, content |-> request'[s].content, size |-> 0]]
      BY <1>1, <1>3 DEF Sends, Send
    <2>2. UNCHANGED <<stored, acked>>
      BY <1>3 DEF Sends, Send
    <2>3. \A t \in Slot : request'[t] = request[t] \/ request'[t].stage = "sent"
      BY <1>1, <2>1
    <2> QED
      BY <2>2, <2>3 DEF SizeKept
  <1>4. CASE Acknowledged \/ Refused \/ TimesOut
    BY <1>4, AnswerKeeps DEF SizeKept
  <1>5. ASSUME NEW s \in Slot, Measure(s) PROVE SizeKept'
    <2>1. PICK q \in Transfer : request' = [request EXCEPT ![s] = q] /\ q.size = Len(stored)
      BY <1>5, Measured
    <2>2. UNCHANGED <<stored, acked>>
      BY <1>5 DEF Measure, upload
    <2>3. \A t \in Slot : request'[t] = request[t] \/ request'[t].size = Len(stored)
      BY <1>1, <2>1
    <2> QED
      BY <1>1, <2>2, <2>3 DEF SizeKept
  <1>6. ASSUME NEW s \in Slot, AppendRest(s) PROVE SizeKept'
    <2>1. PICK r \in Transfer, q \in Transfer :
            /\ request' = [request EXCEPT ![s] = q] /\ q.size = Len(stored')
            /\ Len(stored') = Len(stored) + Len(r.content)
      BY <1>6, Appended
    <2>2. acked' = acked /\ Len(stored) <= Len(stored')
      BY <1>1, <1>6, <2>1, TransferFields DEF AppendRest, upload
    <2>3. \A t \in Slot : request'[t] = request[t] \/ request'[t].size = Len(stored')
      BY <1>1, <2>1
    <2>4. ASSUME NEW t \in Slot, request'[t].stage \in {"write", "stored", "conflict"}
          PROVE  request'[t].size <= Len(stored')
      <3>1. request[t].size \in Nat
        BY <1>1, TransferFields
      <3> QED
        BY <1>1, <2>2, <2>3, <2>4, <3>1 DEF SizeKept
    <2> QED
      BY <1>1, <2>2, <2>4 DEF SizeKept
  <1>7. ASSUME NEW s \in Slot, Unheard(s) PROVE SizeKept'
    <2>1. \A t \in Slot : request'[t] = request[t] \/ request'[t].stage = "free"
      BY <1>1, <1>7, FreeTransfer DEF Unheard
    <2> QED
      BY <1>7, <2>1 DEF Unheard, upload, SizeKept
  <1> QED
    BY <1>2, <1>3, <1>4, <1>5, <1>6, <1>7, StepKinds

LEMMA ReportStep ==
    ASSUME LogTypeOK, CallKept, ReportKept, [LogNext]_logVars
    PROVE  ReportKept'
  <1>1. CASE Write \/ ScriptEnds
    BY <1>1 DEF Write, ScriptEnds, upload, ReportKept
  <1>2. CASE EndedByOthers
    BY <1>2 DEF EndedByOthers, upload, ReportKept
  <1>3. CASE NothingToSend
    BY <1>3 DEF NothingToSend, ReportKept
  <1>4. CASE Report
    BY <1>4 DEF Report, ReportKept
  <1>5. CASE Killed
    BY <1>5 DEF Killed, ReportKept
  <1>6. CASE ClientDies \/ ClientStarts
    BY <1>6 DEF ClientDies, ClientStarts, ReportKept
  <1>7. CASE CheckAlive
    <2>1. PICK v \in [at : {"check", "read", "done"}, alive : BOOLEAN, shown : Nat] : v = viewer
      BY DEF LogTypeOK
    <2>2. viewer' = [v EXCEPT !.at = "read", !.alive = (status = "running")]
      BY <1>7, <2>1 DEF CheckAlive
    <2>3. viewer'.at = "read" /\ viewer'.alive = (status = "running")
      BY <2>1, <2>2
    <2>4. UNCHANGED <<uploader, status>>
      BY <1>7 DEF CheckAlive, upload
    <2> QED
      BY <2>3, <2>4 DEF ReportKept
  <1>8. CASE ReadOn
    <2>1. PICK v \in [at : {"check", "read", "done"}, alive : BOOLEAN, shown : Nat] : v = viewer
      BY DEF LogTypeOK
    <2>2. UNCHANGED <<uploader, status>> /\ viewer.at = "read"
      BY <1>8 DEF ReadOn, upload
    <2>3. CASE viewer' = NewViewer
      <3>1. viewer'.at = "check"
        BY <2>3 DEF NewViewer
      <3> QED
        BY <2>2, <3>1 DEF ReportKept
    <2>4. CASE viewer' = [viewer EXCEPT !.shown = Len(stored),
                                        !.at = IF viewer.alive THEN "check" ELSE "done"]
      <3>1. PICK n \in Nat : n = Len(stored)
        BY LengthsTyped
      <3>2. viewer' = [v EXCEPT !.shown = n, !.at = IF v.alive THEN "check" ELSE "done"]
        BY <2>1, <2>4, <3>1
      <3>3. viewer'.alive = v.alive /\ viewer'.at = IF v.alive THEN "check" ELSE "done"
        BY <2>1, <3>2
      <3> QED
        BY <2>1, <2>2, <3>3 DEF ReportKept
    <2> QED
      BY <1>8, <2>3, <2>4 DEF ReadOn
  <1>9. CASE Sends
    BY <1>9 DEF Sends, Send, ReportKept
  <1>10. CASE Acknowledged \/ Refused \/ TimesOut
    <2>1. call # NoSlot /\ uploader' = After /\ UNCHANGED <<status, viewer>>
      BY <1>10 DEF Acknowledged, Refused, TimesOut, Failed
    <2> QED
      BY <2>1, AfterTypes DEF CallKept, ReportKept
  <1>11. ASSUME NEW s \in Slot, Measure(s) \/ AppendRest(s) \/ Unheard(s) PROVE ReportKept'
    BY <1>11 DEF Measure, AppendRest, Unheard, upload, ReportKept
  <1>12. CASE UNCHANGED logVars
    BY <1>12 DEF logVars, upload, ReportKept
  <1> QED
    BY <1>1, <1>2, <1>3, <1>4, <1>5, <1>6, <1>7, <1>8, <1>9, <1>10, <1>11, <1>12, StepKinds
    DEF Alone

-----------------------------------------------------------------------------
(* Steps of a log that is not disturbed *)

LEMMA DisturbedStays ==
    ASSUME [LogNext]_logVars, Undisturbed'
    PROVE  Undisturbed
  <1>1. CASE Alone \/ UNCHANGED logVars
    <2>1. UNCHANGED <<garbled, overlapped>>
      BY <1>1 DEF Alone, Write, ScriptEnds, EndedByOthers, NothingToSend, Report, Killed,
                  ClientDies, ClientStarts, CheckAlive, ReadOn, logHistory, logVars
    <2> QED
      BY <2>1 DEF Undisturbed
  <1>2. CASE Sends
    <2>1. PICK bad \in BOOLEAN : garbled' = (garbled \/ bad)
      BY <1>2 DEF Sends, Send
    <2>2. overlapped' = overlapped
      BY <1>2 DEF Sends, Send
    <2> QED
      BY <2>1, <2>2, Zenon DEF Undisturbed
  <1>3. CASE Acknowledged \/ Refused \/ TimesOut
    <2>1. UNCHANGED <<garbled, overlapped>>
      BY <1>3 DEF Acknowledged, Refused, TimesOut
    <2> QED
      BY <2>1 DEF Undisturbed
  <1>4. ASSUME NEW s \in Slot, Measure(s) \/ AppendRest(s) \/ Unheard(s) PROVE Undisturbed
    <2>1. CASE AppendRest(s)
      <3>1. garbled' = garbled /\ (overlapped' = (overlapped \/ Len(stored) # request[s].size))
        BY <2>1 DEF AppendRest
      <3> QED
        BY <3>1, Zenon DEF Undisturbed
    <2>2. CASE Measure(s) \/ Unheard(s)
      BY <2>2 DEF Measure, Unheard, logHistory, Undisturbed
    <2> QED
      BY <1>4, <2>1, <2>2
  <1> QED
    BY <1>1, <1>2, <1>3, <1>4, StepKinds

(* Bytes of the device's file as the step leaves it. *)
HeldLater(piece, offset) ==
    /\ offset + Len(piece) <= Len(written')
    /\ \A i \in 1..Len(piece) : piece[i] = written'[offset + i]

PlacedLater(r) ==
    /\ r.stage = "sent" => HeldLater(r.content, r.offset)
    /\ r.stage = "write" => HeldLater(r.content, r.size)

LEMMA LaterHeld ==
    HeldKept' <=> HeldLater(stored', 0) /\ \A s \in Slot : PlacedLater(request'[s])
  BY DEF HeldKept, Held, HeldLater, Placed, PlacedLater

(* What is held stays held as the device's file grows. *)
LEMMA HeldGrows ==
    ASSUME LogTypeOK, [LogNext]_logVars, NEW piece \in Text, NEW offset \in Nat,
           Held(piece, offset)
    PROVE  HeldLater(piece, offset)
  <1>1. Len(written) \in Nat /\ Len(piece) \in Nat /\ written \in Text
    BY LengthsTyped, LenProperties DEF LogTypeOK, Text
  <1>2. CASE Write
    <2>1. PICK byte \in Byte : written' = Append(written, byte)
      BY <1>2 DEF Write, Byte
    <2>2. /\ Len(written') = Len(written) + 1
          /\ \A i \in 1..Len(written) : written'[i] = written[i]
      BY <1>1, <2>1, AppendProperties DEF Text
    <2>3. offset + Len(piece) <= Len(written')
      BY <1>1, <2>2 DEF Held
    <2>4. ASSUME NEW i \in 1..Len(piece) PROVE piece[i] = written'[offset + i]
      <3>1. PICK j \in 1..Len(written) : j = offset + i
        BY <1>1, <2>4 DEF Held
      <3>2. piece[i] = written[j]
        BY <2>4, <3>1 DEF Held
      <3> QED
        BY <2>2, <3>1, <3>2
    <2> QED
      BY <2>3, <2>4 DEF HeldLater
  <1>3. CASE ~Write
    <2>1. written' = written
      <3>1. CASE Alone \/ UNCHANGED logVars
        BY <1>3, <3>1 DEF Alone, ScriptEnds, EndedByOthers, NothingToSend, Report, Killed,
           ClientDies, ClientStarts, CheckAlive, ReadOn, logVars, client_log
      <3>2. CASE Sends
        BY <3>2 DEF Sends, Send, client_log
      <3>3. CASE Acknowledged \/ Refused \/ TimesOut
        BY <3>3, AnswerKeeps
      <3>4. ASSUME NEW s \in Slot, Measure(s) \/ AppendRest(s) \/ Unheard(s)
            PROVE  written' = written
        BY <3>4 DEF Measure, AppendRest, Unheard, client_log
      <3> QED
        BY <3>1, <3>2, <3>3, <3>4, StepKinds
    <2> QED
      BY <2>1 DEF Held, HeldLater
  <1> QED
    BY <1>2, <1>3

(* What is sent is a piece of the file; the last upload sends all of the rest. *)
LEMMA SentIsHeld ==
    ASSUME LogTypeOK, NEW l, NEW force \in BOOLEAN, Send(l, force), Undisturbed'
    PROVE  \E s \in Slot, r \in Transfer :
             /\ call' = s /\ request' = [request EXCEPT ![s] = r] /\ r.stage = "sent"
             /\ Held(r.content, r.offset)
             /\ force => r.offset + Len(r.content) = Len(written)
  <1>1. written \in Text /\ acked \in Nat /\ Len(written) \in Nat
    BY LengthsTyped DEF LogTypeOK
  <1>2. /\ Delta \in Text /\ Delta # <<>> /\ Offset \in Nat /\ Offset <= Len(written)
        /\ Len(Delta) = Len(written) - Offset
        /\ Held(Delta, Offset) /\ Held(Front(Delta), Offset)
    BY <1>1, TheDelta DEF Send
  <1>3. PICK s \in Slot :
          /\ request' = [request EXCEPT ![s] =
               [stage |-> "sent", offset |-> Offset, content |-> Decoded(Delta, force),
                size |-> 0]]
          /\ call' = s
    BY DEF Send
  <1>4. PICK c \in Text : c = Decoded(Delta, force)
    BY <1>2, DecodedText
  <1>5. PICK r \in Transfer : r = [stage |-> "sent", offset |-> Offset, content |-> c, size |-> 0]
    BY <1>2 DEF Transfer
  <1>6. r.stage = "sent" /\ r.offset = Offset /\ r.content = c
    BY <1>5 DEF Transfer
  <1>7. "replaced" \notin ToSet(Decoded(Delta, force))
    <2>1. garbled' = (garbled \/ "replaced" \in ToSet(Decoded(Delta, force)))
      BY DEF Send
    <2> QED
      BY <2>1, Zenon DEF Undisturbed
  <1>8. c = Delta \/ (~force /\ c = Front(Delta))
    BY <1>2, <1>4, <1>7, DecodedText
  <1>9. Held(c, Offset) /\ (force => Offset + Len(c) = Len(written))
    <2>1. CASE c = Delta
      BY <1>1, <1>2, <2>1
    <2>2. CASE ~force /\ c = Front(Delta)
      BY <1>2, <2>2
    <2> QED
      BY <1>8, <2>1, <2>2
  <1>10. request' = [request EXCEPT ![s] = r]
    BY <1>3, <1>4, <1>5
  <1> QED
    BY <1>3, <1>6, <1>9, <1>10

(* When there is nothing left to send, the server has all of the file. *)
LEMMA NothingIsLeft ==
    ASSUME LogTypeOK, SizeKept, HeldKept, Delta = <<>>
    PROVE  Len(stored) = Len(written)
  <1>1. Len(written) \in Nat /\ Len(stored) \in Nat /\ acked \in Nat /\ written \in Text
    BY LengthsTyped DEF LogTypeOK
  <1>2. Len(stored) <= Len(written)
    BY <1>1 DEF HeldKept, Held
  <1>3. Len(Delta) = 0 /\ Len(Delta) = Len(written) - Offset /\ Offset \in Nat
    BY <1>1, TheDelta
  <1>4. Offset = acked
    BY <1>1, <1>2 DEF SizeKept, Offset
  <1> QED
    BY <1>1, <1>2, <1>3, <1>4 DEF SizeKept

(* The bytes that the server lacks begin where its file ends. *)
LEMMA MeasuredIsHeld ==
    ASSUME LogTypeOK, HeldKept, NEW s \in Slot, Measure(s)
    PROVE  \E r \in Transfer, q \in Transfer :
             /\ r = request[s] /\ request' = [request EXCEPT ![s] = q]
             /\ q.stage \in {"write", "conflict"}
             /\ q.stage = "write" =>
                  /\ Held(q.content, q.size)
                  /\ r.offset + Len(r.content) = Len(written)
                       => q.size + Len(q.content) = Len(written)
  <1>1. Len(written) \in Nat /\ Len(stored) \in Nat
    BY LengthsTyped
  <1>2. PICK r \in Transfer, q \in Transfer :
          /\ r = request[s] /\ r.stage = "sent" /\ q.size = Len(stored)
          /\ request' = [request EXCEPT ![s] = q]
          /\ \/ q.stage = "conflict"
             \/ /\ q.stage = "write" /\ r.offset <= Len(stored)
                /\ \E known \in Nat :
                     /\ known <= Len(r.content)
                     /\ \/ known = Len(stored) - r.offset
                        \/ known = Len(r.content) /\ known <= Len(stored) - r.offset
                     /\ Len(q.content) = Len(r.content) - known
                     /\ \A i \in 1..Len(q.content) : q.content[i] = r.content[known + i]
    BY Measured
  <1>3. CASE q.stage = "conflict"
    BY <1>2, <1>3
  <1>4. CASE q.stage = "write"
    <2>1. PICK known \in Nat :
            /\ known <= Len(r.content)
            /\ \/ known = Len(stored) - r.offset
               \/ known = Len(r.content) /\ known <= Len(stored) - r.offset
            /\ Len(q.content) = Len(r.content) - known
            /\ \A i \in 1..Len(q.content) : q.content[i] = r.content[known + i]
      BY <1>2, <1>4
    <2>2. r.offset \in Nat /\ Len(r.content) \in Nat
      BY TransferFields
    <2>3. Held(r.content, r.offset) /\ Len(stored) <= Len(written)
      BY <1>1, <1>2 DEF HeldKept, Placed, Held
    <2>4. CASE known = Len(stored) - r.offset
      <3>1. q.size + Len(q.content) = r.offset + Len(r.content)
        <4>1. q.size = Len(stored) /\ Len(q.content) = Len(r.content) - (Len(stored) - r.offset)
          BY <1>2, <2>1, <2>4
        <4> QED
          BY <1>1, <2>2, <4>1
      <3>2. ASSUME NEW i \in 1..Len(q.content) PROVE q.content[i] = written[q.size + i]
        <4>1. PICK j \in 1..Len(r.content) : j = known + i
          BY <2>1, <2>2, <3>2
        <4>2. q.content[i] = r.content[j] /\ r.content[j] = written[r.offset + j]
          BY <2>1, <2>3, <3>2, <4>1 DEF Held
        <4>3. r.offset + j = q.size + i
          BY <1>1, <1>2, <2>1, <2>2, <2>4, <3>2, <4>1
        <4> QED
          BY <4>2, <4>3
      <3>3. q.size + Len(q.content) <= Len(written)
        BY <2>3, <3>1 DEF Held
      <3>4. Held(q.content, q.size)
        BY <3>2, <3>3 DEF Held
      <3> QED
        BY <1>2, <1>4, <3>1, <3>4
    <2>5. CASE known = Len(r.content) /\ known <= Len(stored) - r.offset
      <3>1. Len(q.content) = 0 /\ r.offset + Len(r.content) <= Len(stored)
        BY <1>1, <2>1, <2>2, <2>5
      <3>2. Held(q.content, q.size)
        BY <1>1, <1>2, <2>3, <3>1 DEF Held
      <3>3. r.offset + Len(r.content) = Len(written) => q.size + Len(q.content) = Len(written)
        BY <1>1, <1>2, <2>3, <3>1
      <3> QED
        BY <1>2, <1>4, <3>2, <3>3
    <2> QED
      BY <2>1, <2>4, <2>5
  <1> QED
    BY <1>2, <1>3, <1>4

(* An append to the file that was measured continues the device's file. *)
LEMMA AppendedIsHeld ==
    ASSUME LogTypeOK, HeldKept, NEW s \in Slot, AppendRest(s), Undisturbed'
    PROVE  \E r \in Transfer, q \in Transfer :
             /\ r = request[s] /\ r.stage = "write" /\ r.size = Len(stored)
             /\ request' = [request EXCEPT ![s] = q] /\ q.stage = "stored"
             /\ Len(stored') = r.size + Len(r.content) /\ Len(stored) <= Len(stored')
             /\ Held(stored', 0)
  <1>1. Len(written) \in Nat /\ Len(stored) \in Nat
    BY LengthsTyped
  <1>2. PICK r \in Transfer, q \in Transfer :
          /\ r = request[s] /\ r.stage = "write"
          /\ request' = [request EXCEPT ![s] = q]
          /\ q.stage = "stored"
          /\ Len(stored') = Len(stored) + Len(r.content)
          /\ \A i \in 1..Len(stored') :
               stored'[i] = IF i <= Len(stored) THEN stored[i] ELSE r.content[i - Len(stored)]
          /\ overlapped' = (overlapped \/ Len(stored) # r.size)
    BY Appended
  <1>3. r.size = Len(stored)
    <2>1. overlapped' = (overlapped \/ Len(stored) # r.size)
      BY <1>2
    <2> QED
      BY <2>1, Zenon DEF Undisturbed
  <1>4. Held(stored, 0) /\ Held(r.content, r.size) /\ Len(r.content) \in Nat
    BY <1>2, TransferFields DEF HeldKept, Placed
  <1>5. Len(stored') <= Len(written)
    BY <1>2, <1>3, <1>4 DEF Held
  <1>6. ASSUME NEW i \in 1..Len(stored') PROVE stored'[i] = written[i]
    <2>1. CASE i <= Len(stored)
      <3>1. i \in 1..Len(stored) /\ 0 + i = i
        BY <1>1, <1>6, <2>1
      <3>2. stored'[i] = stored[i]
        BY <1>2, <1>6, <2>1
      <3>3. stored[i] = written[0 + i]
        BY <1>4, <3>1 DEF Held
      <3> QED
        BY <3>1, <3>2, <3>3
    <2>2. CASE ~(i <= Len(stored))
      <3>1. PICK j \in 1..Len(r.content) : j = i - Len(stored)
        BY <1>1, <1>2, <1>4, <1>6, <2>2
      <3>2. stored'[i] = r.content[j]
        BY <1>2, <1>6, <2>2, <3>1
      <3>3. r.content[j] = written[r.size + j]
        BY <1>4, <3>1 DEF Held
      <3>4. Len(stored') \in Nat
        BY <1>1, <1>2, <1>4
      <3>5. r.size + j = i
        BY <1>1, <1>3, <1>6, <3>1, <3>4
      <3> QED
        BY <3>2, <3>3, <3>5
    <2> QED
      BY <2>1, <2>2
  <1>7. Held(stored', 0)
    <2>1. \A i \in 1..Len(stored') : 0 + i = i
      BY <1>1, <1>2, <1>4
    <2>2. 0 + Len(stored') <= Len(written)
      BY <1>1, <1>2, <1>4, <1>5
    <2>3. ASSUME NEW i \in 1..Len(stored') PROVE stored'[i] = written[0 + i]
      BY <1>6, <2>1, <2>3
    <2> QED
      BY <2>2, <2>3 DEF Held
  <1>8. Len(stored') = r.size + Len(r.content) /\ Len(stored) <= Len(stored')
    <2>1. Len(stored') = Len(stored) + Len(r.content)
      BY <1>2
    <2> QED
      BY <1>1, <1>3, <1>4, <2>1
  <1> QED
    BY <1>2, <1>3, <1>7, <1>8

-----------------------------------------------------------------------------
(* The invariant is kept *)

LEMMA HeldStep ==
    ASSUME LogTypeOK, LogTypeOK', HeldKept, [LogNext]_logVars, Undisturbed'
    PROVE  HeldKept'
  <1>1. /\ request \in [Slot -> Transfer] /\ request' \in [Slot -> Transfer]
        /\ stored \in Text
    BY RequestsTyped, LogTypeParts, LogTypeParts2 DEF Files
  <1>2. ASSUME NEW t \in Slot PROVE PlacedLater(request[t])
    <2>1. PICK r \in Transfer : r = request[t]
      BY <1>1
    <2>2. r.content \in Text /\ r.offset \in Nat /\ r.size \in Nat
      BY TransferFields
    <2>3. Placed(r)
      BY <2>1 DEF HeldKept
    <2>4. PlacedLater(r)
      BY <2>2, <2>3, HeldGrows DEF Placed, PlacedLater
    <2> QED
      BY <2>1, <2>4
  <1>3. ASSUME stored' = stored PROVE HeldLater(stored', 0)
    <2>1. PICK file \in Text : file = stored
      BY <1>1
    <2>2. HeldLater(file, 0)
      BY <2>1, HeldGrows DEF HeldKept
    <2> QED
      BY <1>3, <2>1, <2>2
  <1>4. ASSUME NEW r \in Transfer, r.stage \notin {"sent", "write"} PROVE PlacedLater(r)
    BY <1>4 DEF PlacedLater
  <1>5. CASE Alone \/ UNCHANGED logVars
    <2>1. UNCHANGED <<request, stored>>
      BY <1>5, AloneKeeps DEF logVars
    <2> QED
      BY <1>2, <1>3, <2>1, LaterHeld
  <1>6. CASE Sends
    <2>1. PICK l \in {"live", "final", "flush"}, force \in BOOLEAN : Send(l, force)
      BY <1>6 DEF Sends
    <2>2. PICK s \in Slot, r \in Transfer :
            /\ request' = [request EXCEPT ![s] = r] /\ r.stage = "sent"
            /\ Held(r.content, r.offset)
      BY <2>1, SentIsHeld
    <2>3. PlacedLater(r)
      BY <2>2, HeldGrows, TransferFields DEF PlacedLater
    <2>4. \A t \in Slot : request'[t] = request[t] \/ request'[t] = r
      BY <1>1, <2>2
    <2>5. stored' = stored
      BY <2>1 DEF Send
    <2>6. \A t \in Slot : PlacedLater(request'[t])
      BY <1>2, <2>3, <2>4
    <2> QED
      BY <1>3, <2>5, <2>6, LaterHeld
  <1>7. CASE Acknowledged \/ Refused \/ TimesOut
    <2>1. stored' = stored
          /\ \A t \in Slot : request'[t] = request[t] \/ request'[t].stage = "free"
      BY <1>7, AnswerKeeps
    <2>2. ASSUME NEW t \in Slot PROVE PlacedLater(request'[t])
      <3>1. CASE request'[t] = request[t]
        BY <1>2, <3>1
      <3>2. CASE request'[t].stage = "free"
        BY <3>2 DEF PlacedLater
      <3> QED
        BY <2>1, <3>1, <3>2
    <2> QED
      BY <1>3, <2>1, <2>2, LaterHeld
  <1>8. ASSUME NEW s \in Slot, Measure(s) PROVE HeldKept'
    <2>1. PICK q \in Transfer :
            /\ request' = [request EXCEPT ![s] = q]
            /\ q.stage \in {"write", "conflict"}
            /\ q.stage = "write" => Held(q.content, q.size)
      BY <1>8, MeasuredIsHeld
    <2>2. PlacedLater(q)
      BY <2>1, HeldGrows, TransferFields DEF PlacedLater
    <2>3. \A t \in Slot : request'[t] = request[t] \/ request'[t] = q
      BY <1>1, <2>1
    <2>4. stored' = stored
      BY <1>8 DEF Measure
    <2>5. \A t \in Slot : PlacedLater(request'[t])
      BY <1>2, <2>2, <2>3
    <2> QED
      BY <1>3, <2>4, <2>5, LaterHeld
  <1>9. ASSUME NEW s \in Slot, AppendRest(s) PROVE HeldKept'
    <2>1. PICK q \in Transfer :
            /\ request' = [request EXCEPT ![s] = q] /\ q.stage = "stored"
            /\ Held(stored', 0)
      BY <1>9, AppendedIsHeld
    <2>2. written' = written
      BY <1>9 DEF AppendRest, client_log
    <2>3. HeldLater(stored', 0)
      BY <2>1, <2>2 DEF Held, HeldLater
    <2>4. \A t \in Slot : request'[t] = request[t] \/ request'[t] = q
      BY <1>1, <2>1
    <2>5. PlacedLater(q)
      BY <2>1 DEF PlacedLater
    <2>6. \A t \in Slot : PlacedLater(request'[t])
      BY <1>2, <2>4, <2>5
    <2> QED
      BY <2>3, <2>6, LaterHeld
  <1>10. ASSUME NEW s \in Slot, Unheard(s) PROVE HeldKept'
    <2>1. stored' = stored /\ \A t \in Slot : request'[t] = request[t] \/ request'[t] = Free
      BY <1>1, <1>10 DEF Unheard
    <2>2. PlacedLater(Free)
      BY FreeTransfer DEF PlacedLater
    <2>3. \A t \in Slot : PlacedLater(request'[t])
      BY <1>2, <2>1, <2>2
    <2> QED
      BY <1>3, <2>1, <2>3, LaterHeld
  <1> QED
    BY <1>5, <1>6, <1>7, <1>8, <1>9, <1>10, StepKinds

(* A browser that has read to the end has seen what is stored. *)
LEMMA ReadToTheEnd ==
    ASSUME LogTypeOK, ReadOn, viewer'.at = "done"
    PROVE  viewer'.shown = Len(stored)
  <1>1. PICK v \in [at : {"check", "read", "done"}, alive : BOOLEAN, shown : Nat] : v = viewer
    BY DEF LogTypeOK
  <1>2. PICK n \in Nat : n = Len(stored)
    BY LengthsTyped
  <1>3. CASE viewer' = NewViewer
    BY <1>3 DEF NewViewer
  <1>4. CASE viewer' # NewViewer
    <2>1. viewer' = [v EXCEPT !.shown = n, !.at = IF v.alive THEN "check" ELSE "done"]
      BY <1>1, <1>2, <1>4 DEF ReadOn
    <2>2. viewer'.shown = n
      BY <1>1, <2>1
    <2> QED
      BY <1>2, <2>2
  <1> QED
    BY <1>3, <1>4

LEMMA WholeAlone ==
    ASSUME LogTypeOK, CallKept, SizeKept, ReportKept, HeldKept, WholeKept, Alone
    PROVE  WholeKept'
  <1>1. CASE Write
    <2>1. ~closed /\ UNCHANGED <<uploader, delivered>>
      BY <1>1 DEF Write, upload, logHistory
    <2>2. uploader # "final" /\ ~delivered
      BY <2>1, Zenon DEF CallKept
    <2> QED
      BY <2>1, <2>2 DEF WholeKept
  <1>2. CASE ScriptEnds
    <2>1. UNCHANGED <<written, stored, request, call, uploader, status, viewer, delivered>>
      BY <1>2 DEF ScriptEnds, upload, logHistory
    <2> QED
      BY <2>1 DEF WholeKept, TakesTheRest
  <1>3. CASE EndedByOthers
    <2>1. UNCHANGED <<written, stored, request, call, uploader, delivered>>
          /\ status' = "cancelled"
      BY <1>3 DEF EndedByOthers, client_log, upload, logHistory
    <2> QED
      BY <2>1 DEF WholeKept, TakesTheRest
  <1>4. CASE NothingToSend
    <2>1. UNCHANGED <<written, stored, request, call, status, viewer>>
      BY <1>4 DEF NothingToSend, client_log
    <2>2. Len(stored) = Len(written)
      BY <1>4, NothingIsLeft DEF NothingToSend
    <2>3. CASE uploader = "running" /\ uploader' = "report"
      <3>1. status # "reported"
        BY <2>3 DEF ReportKept
      <3> QED
        BY <2>1, <2>2, <2>3, <3>1 DEF WholeKept
    <2>4. CASE UNCHANGED <<uploader, delivered>>
      BY <2>1, <2>4 DEF WholeKept, TakesTheRest
    <2> QED
      BY <1>4, <2>3, <2>4 DEF NothingToSend
  <1>5. CASE Report
    <2>1. UNCHANGED <<written, stored, viewer, delivered>> /\ uploader' = "ended"
      BY <1>5 DEF Report, client_log, logHistory
    <2>2. viewer.at = "done" => status # "running"
      BY DEF ReportKept
    <2>3. status' = status \/ status = "running"
      BY <1>5 DEF Report
    <2> QED
      BY <2>1, <2>2, <2>3 DEF WholeKept
  <1>6. CASE Killed \/ ClientDies \/ ClientStarts
    <2>1. UNCHANGED <<written, stored, status, viewer, delivered>> /\ uploader' # "final"
      BY <1>6 DEF Killed, ClientDies, ClientStarts, client_log, logHistory
    <2> QED
      BY <2>1 DEF WholeKept
  <1>7. CASE CheckAlive \/ ReadOn
    <2>1. UNCHANGED <<written, stored, request, call, uploader, status, delivered>>
      BY <1>7 DEF CheckAlive, ReadOn, client_log, upload, logHistory
    <2>2. viewer'.at = "done" => viewer'.shown = Len(stored)
      <3>1. CASE CheckAlive
        <4>1. PICK v \in [at : {"check", "read", "done"}, alive : BOOLEAN, shown : Nat] : v = viewer
          BY DEF LogTypeOK
        <4>2. viewer' = [v EXCEPT !.at = "read", !.alive = (status = "running")]
          BY <3>1, <4>1 DEF CheckAlive
        <4> QED
          BY <4>1, <4>2
      <3>2. CASE ReadOn
        BY <3>2, ReadToTheEnd
      <3> QED
        BY <1>7, <3>1, <3>2
    <2> QED
      BY <2>1, <2>2 DEF WholeKept, TakesTheRest
  <1> QED
    BY <1>1, <1>2, <1>3, <1>4, <1>5, <1>6, <1>7 DEF Alone

LEMMA WholeStep ==
    ASSUME LogInv, Undisturbed, LogTypeOK', HeldKept', [LogNext]_logVars, Undisturbed'
    PROVE  WholeKept'
  <1>1. /\ LogTypeOK /\ CallKept /\ SizeKept /\ ReportKept /\ HeldKept /\ WholeKept
        /\ request \in [Slot -> Transfer]
    BY RequestsTyped DEF LogInv
  <1>2. CASE Alone
    BY <1>1, <1>2, WholeAlone
  <1>3. CASE Sends
    <2>1. UNCHANGED <<written, stored, status, viewer, delivered>>
      BY <1>3 DEF Sends, Send, client_log
    <2>2. ASSUME uploader' = "final" PROVE TakesTheRest(request[call])'
      <3>1. Send("final", TRUE)
        BY <1>3, <2>2 DEF Sends, Send
      <3>2. PICK s \in Slot, r \in Transfer :
              /\ call' = s /\ request' = [request EXCEPT ![s] = r] /\ r.stage = "sent"
              /\ r.offset + Len(r.content) = Len(written)
        BY <1>1, <3>1, SentIsHeld
      <3>3. request'[call'] = r
        BY <1>1, <3>2
      <3> QED
        BY <2>1, <3>2, <3>3 DEF TakesTheRest
    <2> QED
      BY <1>1, <2>1, <2>2 DEF WholeKept
  <1>4. CASE Acknowledged \/ Refused \/ TimesOut
    <2>1. /\ UNCHANGED <<written, stored, status, viewer>> /\ uploader' = After
          /\ call # NoSlot
      BY <1>4 DEF Acknowledged, Refused, TimesOut, Failed, client_log
    <2>2. uploader' # "final"
      BY <1>1, <2>1, AfterTypes
    <2>3. CASE delivered' = delivered
      BY <1>1, <2>1, <2>2, <2>3 DEF WholeKept
    <2>4. CASE uploader = "final" /\ Acknowledged
      <3>1. request[call].stage = "stored" /\ status # "reported"
        BY <1>1, <2>4 DEF Acknowledged, ReportKept
      <3>2. Len(stored) = Len(written)
        BY <1>1, <2>4, <3>1 DEF WholeKept, TakesTheRest
      <3> QED
        BY <2>1, <2>2, <3>1, <3>2 DEF WholeKept
    <2>5. delivered' = delivered \/ (uploader = "final" /\ Acknowledged)
      <3>1. CASE Acknowledged
        <4>1. delivered' = (delivered \/ uploader = "final") /\ delivered \in BOOLEAN
          BY <1>1, <3>1 DEF Acknowledged, LogTypeOK
        <4> QED
          BY <3>1, <4>1, Zenon
      <3>2. CASE Refused \/ TimesOut
        BY <3>2 DEF Refused, TimesOut, Failed
      <3> QED
        BY <1>4, <3>1, <3>2
    <2> QED
      BY <2>3, <2>4, <2>5
  <1>5. ASSUME NEW s \in Slot, Measure(s) PROVE WholeKept'
    <2>1. PICK r \in Transfer, q \in Transfer :
            /\ r = request[s] /\ request' = [request EXCEPT ![s] = q]
            /\ q.stage \in {"write", "conflict"}
            /\ q.stage = "write" =>
                 \/ r.offset + Len(r.content) # Len(written)
                 \/ q.size + Len(q.content) = Len(written)
      BY <1>1, <1>5, MeasuredIsHeld
    <2>2. UNCHANGED <<written, stored, call, uploader, status, viewer, delivered>>
      BY <1>5 DEF Measure, client_log, upload, logHistory
    <2>3. ASSUME uploader = "final" PROVE TakesTheRest(request[call])'
      <3>1. call \in Slot /\ TakesTheRest(request[call])
        BY <1>1, <2>3 DEF CallKept, WholeKept
      <3>2. CASE call = s
        <4>1. request'[call'] = q
          BY <1>1, <2>1, <2>2, <3>2
        <4>2. r.stage = "sent"
          BY <1>5, <2>1 DEF Measure
        <4>3. r.offset + Len(r.content) = Len(written)
          BY <2>1, <3>1, <3>2, <4>2 DEF TakesTheRest
        <4> QED
          BY <2>1, <2>2, <4>1, <4>3 DEF TakesTheRest
      <3>3. CASE call # s
        <4>1. request'[call'] = request[call]
          BY <1>1, <2>1, <2>2, <3>1, <3>3
        <4> QED
          BY <2>2, <3>1, <4>1 DEF TakesTheRest
      <3> QED
        BY <3>2, <3>3
    <2> QED
      BY <1>1, <2>2, <2>3 DEF WholeKept
  <1>6. ASSUME NEW s \in Slot, AppendRest(s) PROVE WholeKept'
    <2>1. PICK r \in Transfer, q \in Transfer :
            /\ r = request[s] /\ r.stage = "write"
            /\ request' = [request EXCEPT ![s] = q] /\ q.stage = "stored"
            /\ Len(stored') = r.size + Len(r.content) /\ Len(stored) <= Len(stored')
            /\ Held(stored', 0)
      BY <1>1, <1>6, AppendedIsHeld
    <2>2. UNCHANGED <<written, call, uploader, status, viewer, delivered>>
      BY <1>6 DEF AppendRest, client_log, upload
    <2>3. ASSUME Len(stored) = Len(written) PROVE Len(stored') = Len(written)
      <3>1. Len(written) \in Nat /\ Len(stored') \in Nat
        BY <1>1, LengthsTyped, LogTypeParts2, LenProperties DEF Files, Text
      <3> QED
        BY <2>1, <2>3, <3>1 DEF Held
    <2>4. ASSUME uploader = "final" PROVE TakesTheRest(request[call])'
      <3>1. call \in Slot /\ TakesTheRest(request[call])
        BY <1>1, <2>4 DEF CallKept, WholeKept
      <3>2. CASE call = s
        <4>1. request'[call'] = q
          BY <1>1, <2>1, <2>2, <3>2
        <4>2. r.size + Len(r.content) = Len(written)
          BY <2>1, <3>1, <3>2 DEF TakesTheRest
        <4> QED
          BY <2>1, <2>2, <4>1, <4>2 DEF TakesTheRest
      <3>3. CASE call # s
        <4>1. request'[call'] = request[call]
          BY <1>1, <2>1, <2>2, <3>1, <3>3
        <4> QED
          BY <2>2, <2>3, <3>1, <4>1 DEF TakesTheRest
      <3> QED
        BY <3>2, <3>3
    <2> QED
      BY <1>1, <2>2, <2>3, <2>4 DEF WholeKept
  <1>7. ASSUME NEW s \in Slot, Unheard(s) PROVE WholeKept'
    <2>1. UNCHANGED <<written, stored, call, uploader, status, viewer, delivered>>
      BY <1>7 DEF Unheard, client_log, upload, logHistory
    <2>2. ASSUME uploader = "final" PROVE request'[call'] = request[call]
      <3>1. call \in Slot /\ call # s /\ request' = [request EXCEPT ![s] = Free]
        BY <1>1, <1>7, <2>2 DEF CallKept, Unheard
      <3> QED
        BY <1>1, <2>1, <3>1
    <2> QED
      BY <1>1, <2>1, <2>2 DEF WholeKept, TakesTheRest
  <1>8. CASE UNCHANGED logVars
    <2>1. UNCHANGED <<written, stored, request, call, uploader, status, viewer, delivered>>
      BY <1>8 DEF logVars, client_log, upload, logHistory
    <2> QED
      BY <1>1, <2>1 DEF WholeKept, TakesTheRest
  <1> QED
    BY <1>2, <1>3, <1>4, <1>5, <1>6, <1>7, <1>8, StepKinds

LEMMA LogStart == LogInit => LogInv
  <1> SUFFICES ASSUME LogInit PROVE LogInv
    OBVIOUS
  <1>1. <<>> \in Text /\ Len(<<>>) = 0
    BY DEF Text
  <1>2. request \in [Slot -> Transfer] /\ \A s \in Slot : request[s].stage = "free"
    BY FreeTransfer DEF LogInit
  <1>3. Simple
    BY DEF LogInit, NewViewer, Simple
  <1>4. Files
    BY <1>1, LogAssumption DEF LogInit, Files
  <1>5. LogTypeOK
    BY <1>2, <1>3, <1>4, LogTypeParts
  <1>6. CallKept /\ SizeKept
    BY <1>1, <1>2 DEF LogInit, CallKept, SizeKept
  <1>7. ReportKept
    BY DEF LogInit, ReportKept, NewViewer
  <1>8. HeldKept
    BY <1>1, <1>2 DEF LogInit, HeldKept, Held, Placed
  <1>9. WholeKept
    BY DEF LogInit, WholeKept
  <1> QED
    BY <1>5, <1>6, <1>7, <1>8, <1>9 DEF LogInv

LEMMA LogSteps == LogInv /\ [LogNext]_logVars => LogInv'
  <1> SUFFICES ASSUME LogInv, [LogNext]_logVars PROVE LogInv'
    OBVIOUS
  <1>1. LogTypeOK' /\ CallKept' /\ ReportKept'
    BY LogTypes, CallStep, ReportStep DEF LogInv
  <1>2. SizeKept'
    BY <1>1, SizeStep DEF LogInv
  <1>3. ASSUME Undisturbed' PROVE HeldKept' /\ WholeKept'
    <2>1. Undisturbed
      BY <1>3, DisturbedStays
    <2>2. HeldKept'
      BY <1>1, <1>3, <2>1, HeldStep DEF LogInv
    <2> QED
      BY <1>1, <1>3, <2>1, <2>2, WholeStep
  <1> QED
    BY <1>1, <1>2, <1>3 DEF LogInv

-----------------------------------------------------------------------------
(* Theorems *)

(* In every reachable state of LogUpload the requests under way are pieces of the  *)
(* device's file at the places where the server will put them, the server never    *)
(* acknowledges more than it has, and the last upload carries the rest             *)
(* (_upload_log_delta, append_run_log_chunk).                                      *)
THEOREM LogInvariant == LogSpec => []LogInv
  <1>1. LogInv /\ [LogNext]_logVars => LogInv'
    BY LogSteps
  <1> QED
    BY LogStart, <1>1, PTL DEF LogSpec

(* The server's log is the beginning of the device's, whole when it counts as      *)
(* delivered, and a browser that followed the run to its end has seen all of it,   *)
(* for files of every length and any number of requests at once (LogIsFaithful).   *)
THEOREM TheLogIsFaithful == LogSpec => []LogIsFaithful
  <1>1. LogInv => LogIsFaithful
    <2> SUFFICES ASSUME LogInv, Undisturbed
                 PROVE  /\ IsPrefix(stored, written)
                        /\ delivered => stored = written
                        /\ delivered /\ status = "reported" /\ viewer.at = "done"
                             => viewer.shown = Len(written)
      BY DEF LogIsFaithful
    <2>1. stored \in Text /\ written \in Text /\ Held(stored, 0) /\ WholeKept
      BY LogTypeParts DEF LogInv, Files, HeldKept
    <2>2. IsPrefix(stored, written)
      BY <2>1, HeldIsPrefix
    <2>3. delivered => stored = written
      BY <2>1, HeldIsPrefix DEF WholeKept
    <2> QED
      BY <2>1, <2>2, <2>3 DEF WholeKept
  <1> QED
    BY <1>1, LogInvariant, PTL

-----------------------------------------------------------------------------
(* Transfers *)

Partial == [size : Nat, from : SUBSET Object, tag : Object \cup {NoTag}]
Fetch == [file : File, at : {"idle", "asked", "body"}, offset : Nat, body : Object]

OneObject(p) == p.tag # NoTag => p.from \subseteq {p.tag}

\* The body that follows is the object that the ETag names.
BodyInv == fetch.at = "body" /\ partial[fetch.file].tag # NoTag
              => partial[fetch.file].tag = fetch.body

DownloadInv == DownloadTypeOK /\ PartialIsOneObject /\ BodyInv

LEMMA NothingIsPartial == Nothing \in Partial /\ OneObject(Nothing)
  BY DEF Nothing, Partial, OneObject

LEMMA NoFetchIsFetch == NoFetch \in Fetch /\ NoFetch.at = "idle"
  BY DownloadAssumption DEF NoFetch, Fetch, File

LEMMA DownloadInvInit == DownloadInit => DownloadInv
  <1> SUFFICES ASSUME DownloadInit PROVE DownloadInv
    OBVIOUS
  <1>1. /\ partial \in [File -> Partial]
        /\ \A f \in File : OneObject(partial[f])
    BY NothingIsPartial DEF DownloadInit
  <1> QED
    BY <1>1, NoFetchIsFetch
       DEF DownloadInit, DownloadInv, DownloadTypeOK, PartialIsOneObject, BodyInv, OneObject,
           Partial, Fetch

\* A step that gives one file another partial keeps the rest as it is.
LEMMA OnePartial ==
    ASSUME DownloadTypeOK, PartialIsOneObject, NEW f \in File, NEW p \in Partial, OneObject(p),
           partial' = [partial EXCEPT ![f] = p]
    PROVE  /\ partial' \in [File -> Partial] /\ PartialIsOneObject' /\ partial'[f] = p
  BY DEF DownloadTypeOK, PartialIsOneObject, OneObject, Partial

\* What is known of the transfer under way.
LEMMA Known ==
    ASSUME DownloadInv
    PROVE  /\ Here \in File /\ partial[Here] \in Partial /\ OneObject(partial[Here])
           /\ fetch \in Fetch /\ served[Here] \in Object
  BY DEF DownloadInv, DownloadTypeOK, Here, Fetch, Partial, OneObject, PartialIsOneObject

LEMMA DownloadInvStep == DownloadInv /\ [DownloadNext]_downloadVars => DownloadInv'
  <1> SUFFICES ASSUME DownloadInv, [DownloadNext]_downloadVars PROVE DownloadInv'
    OBVIOUS
  <1>0. /\ DownloadTypeOK /\ PartialIsOneObject
        /\ Here \in File /\ partial[Here] \in Partial /\ OneObject(partial[Here])
        /\ fetch \in Fetch /\ served[Here] \in Object
        /\ served \in [File -> Object] /\ kept \in [File -> {{}, {Wanted}}]
    BY Known DEF DownloadInv, DownloadTypeOK
  <1>1. ASSUME partial' \in [File -> Partial], PartialIsOneObject', fetch' = NoFetch,
               kept' \in [File -> {{}, {Wanted}}], served' = served
        PROVE  DownloadInv'
    BY <1>0, <1>1, NoFetchIsFetch DEF DownloadInv, DownloadTypeOK, BodyInv, Partial, Fetch
  <1>2. ASSUME NEW f \in File, Asks(f) PROVE DownloadInv'
    <2>1. PICK p \in Partial : /\ OneObject(p) /\ partial' = [partial EXCEPT ![f] = p]
                               /\ fetch' = [NoFetch EXCEPT !.file = f, !.at = "asked",
                                                           !.offset = p.size]
      <3>1. partial[f] \in Partial /\ OneObject(partial[f])
        BY <1>0 DEF DownloadTypeOK, PartialIsOneObject, OneObject, Partial
      <3> QED
        BY <1>2, <3>1, NothingIsPartial DEF Asks
    <2>2. fetch' \in Fetch /\ fetch'.at = "asked"
      BY <2>1, DownloadAssumption DEF NoFetch, Fetch, Partial, File
    <2>3. partial' \in [File -> Partial] /\ PartialIsOneObject'
      BY <1>0, <2>1, OnePartial
    <2> QED
      BY <1>0, <1>2, <2>2, <2>3 DEF Asks, DownloadInv, DownloadTypeOK, BodyInv, Fetch, Partial
  <1>3. ASSUME NEW f \in File, NEW o \in Object, ServerReplaces(f, o) PROVE DownloadInv'
    BY <1>0, <1>3 DEF ServerReplaces, DownloadInv, DownloadTypeOK, PartialIsOneObject, BodyInv
  <1>4. ASSUME NEW p \in Partial, OneObject(p), partial' = [partial EXCEPT ![Here] = p],
               p.tag # NoTag => p.tag = served[Here],
               fetch' = [fetch EXCEPT !.at = "body", !.body = served[Here]],
               UNCHANGED <<served, kept>>
        PROVE  DownloadInv'
    <2>1. fetch' \in Fetch /\ fetch'.file = Here /\ fetch'.body = served[Here]
      BY <1>0, <1>4 DEF Fetch, Here
    <2>2. partial' \in [File -> Partial] /\ PartialIsOneObject' /\ partial'[Here] = p
      BY <1>0, <1>4, OnePartial
    <2>3. BodyInv'
      BY <1>4, <2>1, <2>2 DEF BodyInv
    <2> QED
      BY <1>0, <1>4, <2>1, <2>2, <2>3 DEF DownloadInv, DownloadTypeOK, Fetch, Partial
  <1>5. ASSUME NEW tag \in Object \cup {NoTag}, PartFollows(tag) PROVE DownloadInv'
    <2>1. partial' = [partial EXCEPT ![Here] = partial[Here]]
      BY <1>0, <1>5 DEF PartFollows, Partial, DownloadTypeOK
    <2> QED
      BY <1>0, <1>4, <1>5, <2>1 DEF PartFollows
  <1>6. ASSUME NEW tag \in Object \cup {NoTag}, AllFollows(tag) PROVE DownloadInv'
    <2>1. PICK p \in Partial : p = [Nothing EXCEPT !.tag = tag]
      BY DEF Nothing, Partial
    <2>2. OneObject(p) /\ (p.tag # NoTag => p.tag = served[Here])
      BY <1>6, <2>1 DEF AllFollows, OneObject, Nothing
    <2> QED
      BY <1>4, <1>6, <2>1, <2>2 DEF AllFollows
  <1>7. CASE NoAnswer
    <2>1. partial' \in [File -> Partial] /\ PartialIsOneObject'
      <3>1. CASE partial' = partial
        BY <1>0, <3>1 DEF DownloadTypeOK, PartialIsOneObject, Partial
      <3>2. CASE partial' = [partial EXCEPT ![Here] = Nothing]
        BY <1>0, <3>2, NothingIsPartial, OnePartial
      <3> QED
        BY <1>7, <3>1, <3>2 DEF NoAnswer
    <2> QED
      BY <1>0, <1>1, <1>7, <2>1 DEF NoAnswer
  <1>8. CASE Bytes
    <2>1. PICK p \in Partial : p = [partial[Here] EXCEPT !.size = @ + 1,
                                                         !.from = @ \cup {fetch.body}]
      <3>1. PICK q \in Partial, body \in Object : q = partial[Here] /\ body = fetch.body
        BY <1>0 DEF Fetch
      <3>2. q.size + 1 \in Nat /\ q.from \cup {body} \in SUBSET Object
        BY DEF Partial
      <3>3. [q EXCEPT !.size = q.size + 1, !.from = q.from \cup {body}] \in Partial
        BY <3>2 DEF Partial
      <3> QED
        BY <3>1, <3>3
    <2>2. partial' = [partial EXCEPT ![Here] = p]
      BY <1>0, <1>8, <2>1 DEF Bytes, DownloadTypeOK, Partial
    <2>3. p.tag = partial[Here].tag /\ p.from = partial[Here].from \cup {fetch.body}
      BY <1>0, <2>1 DEF Partial
    <2>4. p.tag # NoTag => p.tag = fetch.body
      BY <1>8, <2>3 DEF Bytes, DownloadInv, BodyInv, Here
    <2>5. OneObject(p)
      BY <1>0, <2>3, <2>4 DEF OneObject
    <2>6. partial' \in [File -> Partial] /\ PartialIsOneObject' /\ partial'[Here] = p
      BY <1>0, <2>2, <2>5, OnePartial
    <2>7. BodyInv'
      BY <1>8, <2>4, <2>6 DEF Bytes, BodyInv, Here
    <2> QED
      BY <1>0, <1>8, <2>6, <2>7 DEF Bytes, DownloadInv, DownloadTypeOK, Partial
  <1>9. CASE Completed
    <2>1. kept' \in [File -> {{}, {Wanted}}]
      BY <1>0, <1>9 DEF Completed, Verified
    <2>2. PICK p \in {Nothing, [Nothing EXCEPT !.tag = partial[Here].tag]} :
             partial' = [partial EXCEPT ![Here] = p]
      BY <1>9 DEF Completed
    <2>3. p \in Partial /\ OneObject(p)
      <3>1. CASE p = Nothing
        BY <3>1, NothingIsPartial
      <3>2. CASE p = [Nothing EXCEPT !.tag = partial[Here].tag]
        BY <1>0, <3>2 DEF Nothing, Partial, OneObject
      <3> QED
        BY <2>2, <3>1, <3>2
    <2> QED
      BY <1>0, <1>1, <1>9, <2>1, <2>2, <2>3, OnePartial DEF Completed
  <1>10. CASE BreaksOff
    <2>1. PICK p \in {Nothing, partial[Here]} : partial' = [partial EXCEPT ![Here] = p]
      BY <1>0, <1>10 DEF BreaksOff, DownloadTypeOK
    <2>2. p \in Partial /\ OneObject(p)
      BY <1>0, <2>1, NothingIsPartial
    <2> QED
      BY <1>0, <1>1, <1>10, <2>1, <2>2, OnePartial DEF BreaksOff
  <1>11. CASE DownloadCut
    BY <1>0, <1>1, <1>11 DEF DownloadCut, DownloadTypeOK, PartialIsOneObject, Partial
  <1>12. CASE Merges
    BY <1>0, <1>12 DEF Merges, DownloadInv, DownloadTypeOK, PartialIsOneObject, BodyInv, File
  <1>13. CASE UNCHANGED downloadVars
    BY <1>0, <1>13 DEF downloadVars, DownloadInv, DownloadTypeOK, PartialIsOneObject, BodyInv
  <1> QED
    BY <1>2, <1>3, <1>5, <1>6, <1>7, <1>8, <1>9, <1>10, <1>11, <1>12, <1>13 DEF DownloadNext

-----------------------------------------------------------------------------
(* Theorems *)

THEOREM DownloadInvHolds == DownloadSpec => []DownloadInv
  <1> QED
    BY DownloadInvInit, DownloadInvStep, PTL DEF DownloadSpec

\* The files, what is kept of them and the transfer stay well typed; a file in its
\* place is the one that the manifest describes (download_verified_file, _download_parts).
THEOREM DownloadTypeCorrect == DownloadSpec => []DownloadTypeOK
  <1>1. DownloadInv => DownloadTypeOK
    BY DEF DownloadInv
  <1> QED
    BY <1>1, DownloadInvHolds, PTL

\* A transfer is only resumed with the object it was begun with, however often servers
\* replace a file and the client dies (_valid_partial_response, _resume_offset).
THEOREM PartialsAreOneObject == DownloadSpec => []PartialIsOneObject
  <1>1. DownloadInv => PartialIsOneObject
    BY DEF DownloadInv
  <1> QED
    BY <1>1, DownloadInvHolds, PTL

-----------------------------------------------------------------------------
(* Environments *)

Calm == ~overstayed /\ ~raced

\* Who is under the lock created it, and it does not look left behind: there is
\* at most one such client.
LockInv == \A c \in Client : at[c] \in Inside => lock = [by |-> c, old |-> FALSE]

\* Nothing is removed that was ready, so that what looks ready is; and nobody is
\* under the lock for a reason that is gone.
TargetInv ==
    /\ target # "torn"
    /\ \A c \in Client : /\ at[c] = "remove" => target \in {"absent", "broken"}
                         /\ at[c] \in {"leave", "using"} => target = "ready"

EnvironmentInv == EnvironmentTypeOK /\ (Calm => LockInv /\ TargetInv)

LEMMA EnvironmentInvInit == EnvironmentInit => EnvironmentInv
  <1> SUFFICES ASSUME EnvironmentInit PROVE EnvironmentInv
    OBVIOUS
  <1>1. lock \in [by : Client \cup {Unlocked}, old : BOOLEAN]
    BY DEF EnvironmentInit, NoLock
  <1>2. \A c \in Client : at[c] = "idle"
    BY DEF EnvironmentInit
  <1>3. EnvironmentTypeOK
    BY <1>1 DEF EnvironmentInit, EnvironmentTypeOK
  <1> QED
    BY <1>2, <1>3 DEF EnvironmentInit, EnvironmentInv, LockInv, TargetInv, Inside


\* Types.
LEMMA EnvironmentTypeStep ==
    EnvironmentTypeOK /\ [EnvironmentNext]_environmentVars => EnvironmentTypeOK'
  <1> SUFFICES ASSUME EnvironmentTypeOK, [EnvironmentNext]_environmentVars
               PROVE  EnvironmentTypeOK'
    OBVIOUS
  <1> USE DEF EnvironmentTypeOK, NoLock, Inside
  <1>1. CASE LockGetsOld
    <2>1. lock' \in [by : Client \cup {Unlocked}, old : BOOLEAN]
      BY <1>1 DEF LockGetsOld
    <2>2. overstayed' \in BOOLEAN
      BY <1>1 DEF LockGetsOld
    <2> QED
      BY <1>1, <2>1, <2>2 DEF LockGetsOld
  <1>2. ASSUME NEW c \in Client, EnvironmentStep(c) PROVE EnvironmentTypeOK'
    <2>1. CASE FoundReady(c) \/ NotReady(c) \/ SeesOldLock(c) \/ GivesUpWaiting(c)
               \/ LooksAgain(c) \/ ScriptIsDone(c) \/ ClientDied(c)
      BY <2>1 DEF FoundReady, NotReady, SeesOldLock, GivesUpWaiting, LooksAgain,
                  ScriptIsDone, ClientDied, Moves
    <2>2. CASE Locks(c) \/ RemovesLock(c) \/ Unlocks(c)
      <3>1. lock' \in [by : Client \cup {Unlocked}, old : BOOLEAN]
        <4>1. CASE lock' = [by |-> c, old |-> FALSE]
          BY <4>1
        <4>2. CASE lock' = [by |-> Unlocked, old |-> FALSE]
          BY <4>2
        <4> QED
          BY <2>2, <4>1, <4>2 DEF Locks, RemovesLock, Unlocks
      <3>2. raced' \in BOOLEAN
        <4>1. (raced \/ (lock # NoLock /\ ~lock.old)) \in BOOLEAN
          OBVIOUS
        <4>2. CASE RemovesLock(c)
          <5>1. raced' = (raced \/ (lock # NoLock /\ ~lock.old))
            BY <4>2 DEF RemovesLock
          <5> HIDE DEF NoLock
          <5> QED
            BY <4>1, <5>1
        <4>3. CASE Locks(c) \/ Unlocks(c)
          BY <4>3 DEF Locks, Unlocks
        <4> QED
          BY <2>2, <4>2, <4>3
      <3> QED
        BY <2>2, <3>1, <3>2 DEF Locks, RemovesLock, Unlocks, Moves
    <2>3. CASE StartsOver(c) \/ NothingToRemove(c) \/ Builds(c) \/ Publishes(c) \/ BuildFails(c)
      BY <2>3 DEF StartsOver, NothingToRemove, Builds, Publishes, BuildFails, Moves
    <2>4. CASE Removes(c)
      BY <2>4 DEF Removes
    <2> QED
      BY <1>2, <2>1, <2>2, <2>3, <2>4 DEF EnvironmentStep
  <1>3. CASE UNCHANGED environmentVars
    BY <1>3 DEF environmentVars
  <1> QED
    BY <1>1, <1>2, <1>3 DEF EnvironmentNext

\* A step that leaves the calm has not happened, and what a calm step does.
LEMMA EnvironmentInvStep ==
    EnvironmentInv /\ [EnvironmentNext]_environmentVars => EnvironmentInv'
  <1> SUFFICES ASSUME EnvironmentInv, [EnvironmentNext]_environmentVars, Calm'
               PROVE  LockInv' /\ TargetInv'
    BY EnvironmentTypeStep DEF EnvironmentInv
  <1>0. Calm
    <2>1. CASE LockGetsOld
      BY <2>1 DEF LockGetsOld, Calm
    <2>2. ASSUME NEW c \in Client, RemovesLock(c) PROVE Calm
      BY <2>2 DEF RemovesLock, Calm
    <2>3. CASE UNCHANGED <<overstayed, raced>>
      BY <2>3 DEF Calm
    <2> QED
      BY <2>1, <2>2, <2>3 DEF EnvironmentNext, EnvironmentStep, environmentVars, FoundReady,
         NotReady, Locks, SeesOldLock, GivesUpWaiting, LooksAgain, StartsOver, Removes,
         NothingToRemove, Builds, Publishes, BuildFails, Unlocks, ScriptIsDone, ClientDied
  <1>1. EnvironmentTypeOK /\ EnvironmentTypeOK' /\ LockInv /\ TargetInv
    BY <1>0, EnvironmentTypeStep DEF EnvironmentInv
  <1>2. \A c, d \in Client : at[c] \in Inside /\ at[d] \in Inside => c = d
    BY <1>1 DEF LockInv
  <1>3. CASE LockGetsOld
    BY <1>0, <1>1, <1>3 DEF LockGetsOld, LockInv, TargetInv, Calm, EnvironmentTypeOK, Inside
  <1>4. ASSUME NEW c \in Client, EnvironmentStep(c) PROVE LockInv' /\ TargetInv'
    <2>1. CASE FoundReady(c) \/ NotReady(c) \/ SeesOldLock(c) \/ GivesUpWaiting(c)
               \/ ScriptIsDone(c) \/ ClientDied(c)
      BY <1>1, <2>1 DEF FoundReady, NotReady, SeesOldLock, GivesUpWaiting, ScriptIsDone,
         ClientDied, Moves, LooksReady, LockInv, TargetInv, EnvironmentTypeOK, Inside
    <2>2. CASE Locks(c)
      <3>1. \A d \in Client : at[d] \notin Inside
        BY <1>1, <2>2, EnvironmentAssumption DEF Locks, LockInv, NoLock
      <3> QED
        BY <1>1, <2>2, <3>1 DEF Locks, Moves, LockInv, TargetInv, EnvironmentTypeOK, Inside
    <2>3. CASE RemovesLock(c)
      <3>1. ASSUME NEW d \in Client, at[d] \in Inside PROVE FALSE
        <4>1. lock = [by |-> d, old |-> FALSE]
          BY <1>1, <3>1 DEF LockInv
        <4>2. lock # NoLock /\ ~lock.old
          BY <4>1, EnvironmentAssumption DEF NoLock
        <4> QED
          BY <2>3, <4>2 DEF RemovesLock, Calm
      <3> QED
        BY <1>1, <2>3, <3>1 DEF RemovesLock, Moves, LockInv, TargetInv, EnvironmentTypeOK, Inside
    <2>4. CASE Unlocks(c)
      <3>1. \A d \in Client : d # c => at[d] \notin Inside
        BY <1>2, <2>4 DEF Unlocks, Moves, Inside
      <3> QED
        BY <1>1, <2>4, <3>1 DEF Unlocks, Moves, LockInv, TargetInv, EnvironmentTypeOK, Inside
    <2>5. CASE LooksAgain(c) \/ StartsOver(c) \/ NothingToRemove(c) \/ Builds(c) \/ BuildFails(c)
      BY <1>1, <2>5 DEF LooksAgain, StartsOver, NothingToRemove, Builds, BuildFails, Moves,
         LooksReady, LockInv, TargetInv, EnvironmentTypeOK, Inside
    <2>6. CASE Removes(c)
      <3>1. target = "broken" /\ target' = "absent"
        BY <1>1, <2>6 DEF Removes, TargetInv
      <3>2. \A d \in Client : at[d] \notin {"leave", "using"}
        BY <1>1, <3>1 DEF TargetInv
      <3> QED
        BY <1>1, <2>6, <3>1, <3>2 DEF Removes, LockInv, TargetInv, EnvironmentTypeOK, Inside
    <2>7. CASE Publishes(c)
      <3>1. \A d \in Client : d # c => at[d] \notin Inside
        BY <1>2, <2>7 DEF Publishes, Moves, Inside
      <3> QED
        BY <1>1, <2>7, <3>1 DEF Publishes, Moves, LockInv, TargetInv, EnvironmentTypeOK, Inside
    <2> QED
      BY <1>4, <2>1, <2>2, <2>3, <2>4, <2>5, <2>6, <2>7 DEF EnvironmentStep
  <1>5. CASE UNCHANGED environmentVars
    BY <1>1, <1>5 DEF environmentVars, LockInv, TargetInv, Inside
  <1> QED
    BY <1>3, <1>4, <1>5 DEF EnvironmentNext

-----------------------------------------------------------------------------
(* Theorems *)

THEOREM EnvironmentInvHolds == EnvironmentSpec => []EnvironmentInv
  <1> QED
    BY EnvironmentInvInit, EnvironmentInvStep, PTL DEF EnvironmentSpec

\* The directory, the lock and the clients stay well typed.
THEOREM EnvironmentTypeCorrect == EnvironmentSpec => []EnvironmentTypeOK
  <1>1. EnvironmentInv => EnvironmentTypeOK
    BY DEF EnvironmentInv
  <1> QED
    BY <1>1, EnvironmentInvHolds, PTL

\* A script runs in a complete environment, however many clients build, wait, take
\* over and die (ensure_environment, _fingerprint_lock).
THEOREM EnvironmentsInUseAreComplete == EnvironmentSpec => []EnvironmentInUseIsComplete
  <1>1. EnvironmentInv => EnvironmentInUseIsComplete
    BY DEF EnvironmentInv, Calm, TargetInv, EnvironmentInUseIsComplete
  <1> QED
    BY <1>1, EnvironmentInvHolds, PTL

-----------------------------------------------------------------------------
(* Together *)

(* A workstation behaves as each of its parts does, whatever the others do: the    *)
(* log, the local runs, the update, the transfers and the environments have no     *)
(* state in common (MCWorkstation).                                                *)
THEOREM AWorkstationIsItsParts ==
    Spec => LogSpec /\ LocalSpec /\ UpdateSpec /\ DownloadSpec /\ EnvironmentSpec
  <1> DEFINE vars == <<part, logVars, localVars, updateVars, downloadVars, environmentVars>>
  <1>1. Init => LogInit /\ LocalInit /\ UpdateInit /\ DownloadInit /\ EnvironmentInit
    BY DEF Init
  <1>2. [Next]_vars => /\ [LogNext]_logVars /\ [LocalNext]_localVars
                       /\ [UpdateNext]_updateVars /\ [DownloadNext]_downloadVars
                       /\ [EnvironmentNext]_environmentVars
    BY DEF Next, Log, Local, Update, Download, Environment
  <1> QED
    BY <1>1, <1>2, PTL DEF Spec, LogSpec, LocalSpec, UpdateSpec, DownloadSpec, EnvironmentSpec

(* Every variable of every part of the workstation keeps its type.                 *)
THEOREM TheWorkstationIsTyped == Spec => []WorkstationTypeOK
  <1>1. LogInv => LogTypeOK
    BY DEF LogInv
  <1>2. LocalInv => LocalTypeOK
    BY DEF LocalInv
  <1>3. UpdateInv => UpdateTypeOK
    BY DEF UpdateInv
  <1>4. LogTypeOK /\ LocalTypeOK /\ UpdateTypeOK /\ DownloadTypeOK /\ EnvironmentTypeOK
        => WorkstationTypeOK
    BY DEF WorkstationTypeOK
  <1> QED
    BY <1>1, <1>2, <1>3, <1>4, AWorkstationIsItsParts, LogInvariant, LocalInvariant,
       UpdateInvariant, DownloadTypeCorrect, EnvironmentTypeCorrect, PTL

=============================================================================
