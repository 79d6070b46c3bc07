-------------------------- MODULE VendorRilProofs --------------------------
(***************************************************************************)
(* Proofs about the two modules on the parcels between libril and a vendor *)
(* library: RilExchange, for any library, and ReferenceRil, the library of *)
(* the emulator.                                                           *)
(*                                                                         *)
(* RilExchange, for any parcels, answers and events of the shapes ril.h    *)
(* gives them, and any sizes of the arrays of a CDMA message: Marshalled,  *)
(* and ReadsBack in its two parts.  ExchangeInv, the inductive invariant,  *)
(* says that the pending call and the stored configuration or message are  *)
(* what dispatchFunction made of a parcel the phone may send.  What it     *)
(* takes to use it comes first: what a dispatch function that calls the    *)
(* library has read (ReadWhole), what a response function that succeeds    *)
(* writes (AnswerCarries, EventCarries), and that the four functions of a  *)
(* broadcast configuration and the two of a CDMA message undo each other   *)
(* (ConfigBack, MessageBack).                                              *)
(*                                                                         *)
(* ReferenceRil, for every set of requests the phone may send, every       *)
(* number of sessions and of counted callbacks, and the four builds:       *)
(* AnswersRight, PollingAlive and SessionsApart.                           *)
(* The inductive invariant RefInv says what may be left to do on each      *)
(* thread.  CommandInv gives the instructions that may be on the command   *)
(* thread's stack for the request being carried out (OfRequest) or for a   *)
(* callback (OfCallback); ReaderInv those of a reader, which are few, and  *)
(* what must be true of the channel while it has them.  The other parts    *)
(* say what these instructions owe: a completion (AnswerInv), a poll of    *)
(* the SIM (PollInv), a radio made SIM_NOT_READY once (RadioInv) or set at *)
(* all (OpenInv), and the state a request confirms (PowerInv).             *)
(*                                                                         *)
(* The order: sequences and frames; the instructions each handler leaves   *)
(* after an AT command, one lemma per handler (Good says what they share); *)
(* the parts of RefInv over a step of the command thread; its steps; the   *)
(* requests and callbacks it takes (Fit); the readers; the channel; the    *)
(* theorems.                                                               *)
(***************************************************************************)
EXTENDS ReferenceRil, RilExchange, SequenceTheorems, WellFoundedInduction, TLAPS

-----------------------------------------------------------------------------
(* Induction, from the well-founded order of the natural numbers.          *)

Less == {ss \in Nat \X Nat : ss[1] < ss[2]}
LEMMA LessWF == IsWellFoundedOn(Less, Nat)
  BY ONLY NatLessThanWellFounded DEF OpToRel, Less

LEMMA SetInduction ==
    ASSUME NEW S, 0 \in S, \A n \in Nat : n \in S => n + 1 \in S
    PROVE  Nat \subseteq S
<1> SUFFICES ASSUME Nat \ S # {} PROVE FALSE
  OBVIOUS
<1>1. PICK x \in Nat \ S : \A y \in Nat \ S : ~ (<<y, x>> \in Less)
  BY LessWF, WFMin, Nat \ S \subseteq Nat
<1>2. \A y \in Nat \ S : ~(y < x)
  BY <1>1 DEF Less
<1>3. x # 0 /\ x - 1 \in Nat \ S
  OBVIOUS
<1> QED
  BY <1>2, <1>3

-----------------------------------------------------------------------------
(* Sequences of sequences. *)

\* A sequence of sequences is flattened in steps: f[k] is the first k of them.
LEMMA FlattenSteps ==
    ASSUME NEW S, NEW seqs \in Seq(Seq(S))
    PROVE  \E f :
              /\ \A i \in 1..Len(seqs) :
                    /\ f[i] \in Seq(S) /\ seqs[i] \in Seq(S)
                    /\ f[i] = IF i = 1 THEN seqs[i] ELSE f[i - 1] \o seqs[i]
              /\ FlattenSeq(seqs) = IF Len(seqs) = 0 THEN <<>> ELSE f[Len(seqs)]
<1> DEFINE n == Len(seqs)
           Next1(g, i) == IF i = 1 THEN seqs[i] ELSE g[i - 1] \o seqs[i]
           Flat(g, k) == \A i \in 1..k : g[i] = Next1(g, i)
           F == {k \in Nat : k <= n => \E g \in [1..k -> Seq(S)] : Flat(g, k)}
<1>0. n \in Nat /\ \A i \in 1..n : seqs[i] \in Seq(S)
  BY LenProperties, ElementOfSeq
<1>z. ASSUME NEW k \in Nat, NEW g, NEW h, \A i \in 1..k : h[i] = g[i], NEW i \in 1..(k + 1)
      PROVE  Next1(h, i) = Next1(g, i)
  BY <1>z
<1>y. ASSUME NEW k \in Nat, NEW g \in [1..k -> Seq(S)], k + 1 <= n
      PROVE  Next1(g, k + 1) \in Seq(S)
  BY <1>0, <1>y, ConcatProperties
<1> HIDE DEF n, Next1
<1>1. 0 \in F
  <2> DEFINE g == [i \in 1..0 |-> <<>>]
  <2>1. g \in [1..0 -> Seq(S)] /\ Flat(g, 0)
    OBVIOUS
  <2> QED
    BY <2>1
<1>2. ASSUME NEW k \in Nat, k \in F PROVE k + 1 \in F
  <2> SUFFICES ASSUME k + 1 <= n PROVE \E h \in [1..(k + 1) -> Seq(S)] : Flat(h, k + 1)
    <3> HIDE DEF Flat
    <3> QED
      BY DEF F
  <2>1. \E g \in [1..k -> Seq(S)] : Flat(g, k)
    BY <1>0, <1>2
  <2>2. PICK g \in [1..k -> Seq(S)] : Flat(g, k)
    BY <2>1
  <2> DEFINE h == [i \in 1..(k + 1) |-> Next1(g, i)]
  <2>3. \A i \in 1..(k + 1) : h[i] = Next1(g, i)
    OBVIOUS
  <2>4. \A i \in 1..k : g[i] \in Seq(S) /\ g[i] = Next1(g, i)
    BY <2>2
  <2>5. \A i \in 1..k : h[i] = g[i]
    BY <2>3, <2>4
  <2>6. \A i \in 1..(k + 1) : Next1(g, i) \in Seq(S)
    BY <1>y, <2>2, <2>4
  <2>7. h \in [1..(k + 1) -> Seq(S)]
    BY <2>6
  <2>8. \A i \in 1..(k + 1) : Next1(h, i) = Next1(g, i)
    <3> HIDE DEF h
    <3> QED
      BY <1>z, <2>5
  <2>9. Flat(h, k + 1)
    BY <2>3, <2>8
  <2> QED
    BY <2>7, <2>9
<1>3. n \in F
  <2> HIDE DEF F
  <2> QED
    BY <1>0, <1>1, <1>2, SetInduction
<1>4. \E g : g = [i \in 1..n |-> Next1(g, i)]
  <2>1. \E g \in [1..n -> Seq(S)] : Flat(g, n)
    BY <1>0, <1>3
  <2>2. PICK g \in [1..n -> Seq(S)] : Flat(g, n)
    BY <2>1
  <2>3. g = [i \in 1..n |-> Next1(g, i)]
    BY <2>2
  <2> QED
    BY <2>3
<1> DEFINE f == CHOOSE f : f = [i \in 1..n |-> Next1(f, i)]
<1>5. f = [i \in 1..n |-> Next1(f, i)]
  BY <1>4
<1> HIDE DEF f, F
<1>a. \A i \in 1..n : f[i] = Next1(f, i)
  BY <1>5
<1> DEFINE G == {k \in Nat : k \in 1..n => f[k] \in Seq(S)}
<1>6. 0 \in G
  OBVIOUS
<1>7. ASSUME NEW k \in Nat, k \in G PROVE k + 1 \in G
  <2> SUFFICES ASSUME k + 1 \in 1..n PROVE f[k + 1] \in Seq(S)
    OBVIOUS
  <2>1. f[k + 1] = Next1(f, k + 1)
    BY <1>a
  <2>2. CASE k = 0
    BY <1>0, <2>1, <2>2 DEF Next1
  <2>3. CASE k # 0
    <3>1. f[k] \in Seq(S) /\ seqs[k + 1] \in Seq(S)
      BY <1>0, <1>7, <2>3
    <3>2. f[k] \o seqs[k + 1] \in Seq(S)
      BY <3>1, ConcatProperties
    <3> QED
      BY <2>1, <2>3, <3>2 DEF Next1
  <2> QED
    BY <2>2, <2>3
<1>8. \A k \in 1..n : f[k] \in Seq(S)
  <2>1. Nat \subseteq G
    <3> HIDE DEF G
    <3> QED
      BY <1>6, <1>7, SetInduction
  <2> QED
    BY <1>0, <2>1
<1>9. CASE n = 0
  <2>1. seqs = <<>>
    BY <1>9, EmptySeq DEF n
  <2>2. FlattenSeq(seqs) = <<>>
    BY <2>1, EmptySeq DEF FlattenSeq
  <2> QED
    BY <1>9, <2>2 DEF n
<1>10. CASE n # 0
  <2>1. FlattenSeq(seqs) = f[n]
    BY <1>10 DEF FlattenSeq, f, n, Next1
  <2>2. \A i \in 1..n : f[i] = IF i = 1 THEN seqs[i] ELSE f[i - 1] \o seqs[i]
    BY <1>a DEF Next1
  <2>3. Len(seqs) = n
    BY DEF n
  <2> QED
    BY <1>0, <1>8, <1>10, <2>1, <2>2, <2>3
<1> QED
  BY <1>9, <1>10

\* A sequence of sequences of S is flattened to a sequence of S.
LEMMA Flattened ==
    ASSUME NEW S, NEW seqs \in Seq(Seq(S))
    PROVE  FlattenSeq(seqs) \in Seq(S)
<1>1. PICK f :
        /\ \A i \in 1..Len(seqs) : f[i] \in Seq(S)
        /\ FlattenSeq(seqs) = IF Len(seqs) = 0 THEN <<>> ELSE f[Len(seqs)]
  BY FlattenSteps
<1> QED
  BY <1>1, EmptySeq, LenProperties

\* Groups of w values each lie one after the other: where value i of group k is.
Place(w, k, i) == (k - 1) * w + i
LaidOut(flat, seqs, w) ==
    \A k \in 1..Len(seqs) : \A i \in 1..w : flat[Place(w, k, i)] = seqs[k][i]
LEMMA FlattenedGroups ==
    ASSUME NEW S, NEW seqs \in Seq(Seq(S)), NEW w \in {3, 5},
           \A k \in 1..Len(seqs) : Len(seqs[k]) = w
    PROVE  /\ Len(FlattenSeq(seqs)) = w * Len(seqs)
           /\ LaidOut(FlattenSeq(seqs), seqs, w)
<1> DEFINE n == Len(seqs)
<1>1. PICK f :
        /\ \A i \in 1..n :
              /\ f[i] \in Seq(S) /\ seqs[i] \in Seq(S)
              /\ f[i] = IF i = 1 THEN seqs[i] ELSE f[i - 1] \o seqs[i]
        /\ FlattenSeq(seqs) = IF n = 0 THEN <<>> ELSE f[n]
  BY FlattenSteps
<1>2. n \in Nat /\ w \in Nat /\ \A k \in 1..n : Len(seqs[k]) = w
  BY LenProperties
<1> HIDE DEF n
<1> DEFINE Laid(k) == /\ Len(f[k]) = w * k
                      /\ \A j \in 1..k : \A i \in 1..w : f[k][(j - 1) * w + i] = seqs[j][i]
           G == {k \in Nat : k \in 1..n => Laid(k)}
<1>3. ASSUME 1 \in 1..n PROVE Laid(1)
  <2>1. f[1] = seqs[1] /\ Len(f[1]) = w
    BY <1>1, <1>2, <1>3
  <2>2. w * 1 = w /\ \A i \in 1..w : (1 - 1) * w + i = i
    BY <1>2
  <2> QED
    BY <2>1, <2>2
<1>4. ASSUME NEW k \in Nat, k \in 1..n, k + 1 \in 1..n, Laid(k) PROVE Laid(k + 1)
  <2>1. /\ f[k] \in Seq(S) /\ seqs[k + 1] \in Seq(S) /\ f[k + 1] = f[k] \o seqs[k + 1]
        /\ Len(f[k]) = w * k /\ Len(seqs[k + 1]) = w
    <3>1. f[k + 1] = IF k + 1 = 1 THEN seqs[k + 1] ELSE f[k + 1 - 1] \o seqs[k + 1]
      BY <1>1, <1>4
    <3>2. k + 1 # 1 /\ k + 1 - 1 = k
      BY <1>4
    <3> QED
      BY <1>1, <1>2, <1>4, <3>1, <3>2
  <2>2. /\ Len(f[k + 1]) = Len(f[k]) + Len(seqs[k + 1])
        /\ \A i \in 1..(Len(f[k]) + Len(seqs[k + 1])) :
              f[k + 1][i] = IF i <= Len(f[k]) THEN f[k][i] ELSE seqs[k + 1][i - Len(f[k])]
    <3>1. ASSUME NEW s \in Seq(S), NEW t \in Seq(S), NEW r, r = s \o t
          PROVE  /\ Len(r) = Len(s) + Len(t)
                 /\ \A i \in 1..(Len(s) + Len(t)) : r[i] = IF i <= Len(s) THEN s[i] ELSE t[i - Len(s)]
      BY <3>1, ConcatProperties
    <3> HIDE DEF Laid
    <3> DEFINE s == f[k]
               t == seqs[k + 1]
               r == f[k + 1]
    <3>2. s \in Seq(S) /\ t \in Seq(S) /\ r = s \o t
      BY <2>1
    <3> HIDE DEF s, t, r
    <3>3. /\ Len(r) = Len(s) + Len(t)
          /\ \A i \in 1..(Len(s) + Len(t)) : r[i] = IF i <= Len(s) THEN s[i] ELSE t[i - Len(s)]
      BY <3>1, <3>2
    <3> QED
      BY <3>3 DEF s, t, r
  <2>3. w * k + w = w * (k + 1) /\ w * k \in Nat
    BY <1>4
  <2>4. Len(f[k + 1]) = w * (k + 1)
    BY <2>1, <2>2, <2>3
  <2>5. ASSUME NEW j \in 1..(k + 1), NEW i \in 1..w
        PROVE  f[k + 1][(j - 1) * w + i] = seqs[j][i]
    <3> DEFINE at == (j - 1) * w + i
    <3>1. at \in 1..(w * k + w) /\ (j = k + 1 => ~(at <= w * k) /\ at - w * k = i) /\ (j # k + 1 => at <= w * k)
      <4>1. CASE w = 3
        BY <1>4, <2>5, <4>1
      <4>2. CASE w = 5
        BY <1>4, <2>5, <4>2
      <4> QED
        BY <4>1, <4>2
    <3>2. f[k + 1][at] = IF at <= w * k THEN f[k][at] ELSE seqs[k + 1][at - w * k]
      <4> HIDE DEF at
      <4> QED
        BY <2>1, <2>2, <3>1
    <3>3. CASE j = k + 1
      <4> HIDE DEF at
      <4>1. f[k + 1][at] = seqs[j][i]
        BY <3>1, <3>2, <3>3
      <4> QED
        BY <4>1 DEF at
    <3>4. CASE j # k + 1
      <4>1. j \in 1..k
        BY <1>4, <2>5, <3>4
      <4>2. f[k][at] = seqs[j][i]
        BY <1>4, <4>1
      <4> HIDE DEF at
      <4>3. f[k + 1][at] = seqs[j][i]
        BY <3>1, <3>2, <3>4, <4>2
      <4> QED
        BY <4>3 DEF at
    <3> QED
      BY <3>3, <3>4
  <2> QED
    BY <2>4, <2>5
<1> HIDE DEF Laid
<1>5. 0 \in G
  BY <1>2
<1>6. ASSUME NEW k \in Nat, k \in G PROVE k + 1 \in G
  <2> SUFFICES ASSUME k + 1 \in 1..n PROVE Laid(k + 1)
    OBVIOUS
  <2>1. CASE k = 0
    BY <1>3, <2>1
  <2>2. CASE k # 0
    <3>1. k \in 1..n /\ Laid(k)
      BY <1>2, <1>6, <2>2
    <3> QED
      BY <1>4, <3>1
  <2> QED
    BY <2>1, <2>2
<1>7. Nat \subseteq G
  <2> HIDE DEF G
  <2> QED
    BY <1>5, <1>6, SetInduction
<1>8. CASE n = 0
  <2>1. FlattenSeq(seqs) = <<>> /\ Len(<<>>) = 0 /\ w * n = 0
    BY <1>1, <1>2, <1>8
  <2> QED
    BY <1>8, <2>1 DEF n, LaidOut
<1>9. CASE n # 0
  <2>1. FlattenSeq(seqs) = f[n] /\ Laid(n)
    BY <1>1, <1>2, <1>7, <1>9
  <2> QED
    BY <2>1 DEF n, Laid, LaidOut, Place
<1> QED
  BY <1>8, <1>9

-----------------------------------------------------------------------------
(* What a dispatch function reads. *)

\* Which function reads what.
LEMMA DispatchIs ==
    ASSUME NEW request, NEW p
    PROVE  /\ request \in VoidRequests => dispatchFunction(request, p) = dispatchVoid(p)
           /\ request \in StringRequests => dispatchFunction(request, p) = dispatchString(p)
           /\ request \in StringsRequests => dispatchFunction(request, p) = dispatchStrings(p)
           /\ request \in IntsRequests => dispatchFunction(request, p) = dispatchInts(p)
           /\ request \in CallForwardRequests => dispatchFunction(request, p) = dispatchCallForward(p)
           /\ request = "DIAL" => dispatchFunction(request, p) = dispatchDial(p)
           /\ request = "SIM_IO" => dispatchFunction(request, p) = dispatchSIM_IO(p)
           /\ request = "WRITE_SMS_TO_SIM" => dispatchFunction(request, p) = dispatchSmsWrite(p)
           /\ request = "OEM_HOOK_RAW" => dispatchFunction(request, p) = dispatchRaw(p)
           /\ request = "CDMA_SEND_SMS" => dispatchFunction(request, p) = dispatchCdmaSms(p)
           /\ request = "CDMA_SMS_ACKNOWLEDGE" =>
                  dispatchFunction(request, p) = dispatchCdmaSmsAck(p)
           /\ request = "GSM_SET_BROADCAST_SMS_CONFIG" =>
                  dispatchFunction(request, p) = dispatchGsmBrSmsCnf(p)
           /\ request = "CDMA_SET_BROADCAST_SMS_CONFIG" =>
                  dispatchFunction(request, p) = dispatchCdmaBrSmsCnf(p)
           /\ request = "CDMA_WRITE_SMS_TO_RUIM" =>
                  dispatchFunction(request, p) = dispatchRilCdmaSmsWriteArgs(p)
  BY DEF dispatchFunction, VoidRequests, StringRequests, StringsRequests, IntsRequests,
         CallForwardRequests

LEMMA NumbersIs ==
    ASSUME NEW request, NEW data
    PROVE  /\ request \in IntsRequests \union {"CDMA_SMS_ACKNOWLEDGE"} =>
                  Numbers(request, data) = Range(data)
           /\ request \in CallForwardRequests =>
                  Numbers(request, data) = {data[i] : i \in {1, 2, 3, 4, 6}}
           /\ request = "DIAL" => Numbers(request, data) = {data[2]}
           /\ request = "SIM_IO" => Numbers(request, data) = {data[i] : i \in {1, 2, 4, 5, 6}}
           /\ request = "WRITE_SMS_TO_SIM" => Numbers(request, data) = {data[1]}
           /\ request \in {"GSM_SET_BROADCAST_SMS_CONFIG", "CDMA_SET_BROADCAST_SMS_CONFIG"} =>
                  Numbers(request, data) = UNION {Range(data[i]) : i \in DOMAIN data}
           /\ request = "CDMA_SEND_SMS" =>
                  Numbers(request, data) = UNION {Range(data.head), Range(data.digits),
                      Range(data.sub), Range(data.subDigits), Range(data.bearer)}
           /\ request \in VoidRequests \union StringRequests \union StringsRequests
                            \union {"OEM_HOOK_RAW", "CDMA_WRITE_SMS_TO_RUIM"} =>
                  Numbers(request, data) = {}
  BY DEF Numbers, VoidRequests, StringRequests, StringsRequests, IntsRequests,
         CallForwardRequests

LEMMA StringsInIs ==
    ASSUME NEW request
    PROVE  /\ request = "DIAL" => StringsIn(request) = {1}
           /\ request \in CallForwardRequests => StringsIn(request) = {5}
           /\ request = "SIM_IO" => StringsIn(request) = {3, 7, 8}
           /\ request = "WRITE_SMS_TO_SIM" => StringsIn(request) = {2, 3}
           /\ request \in IntsRequests \union {"CDMA_SEND_SMS", "CDMA_SMS_ACKNOWLEDGE",
                  "GSM_SET_BROADCAST_SMS_CONFIG", "CDMA_SET_BROADCAST_SMS_CONFIG"} =>
                  StringsIn(request) = {}
  BY DEF StringsIn, VoidRequests, StringRequests, StringsRequests, IntsRequests,
         CallForwardRequests

\* Values that are all there.
LEMMA ReadManyIs ==
    ASSUME NEW S, NEW p \in Seq(S), NEW i \in Nat, NEW n \in Int, i + n <= Len(p)
    PROVE  /\ ReadMany(p, i, n) = [k \in 1..n |-> p[i + k]]
           /\ \A k \in 1..n : i + k \in DOMAIN p /\ p[i + k] \in S
           /\ n \in Nat => ReadMany(p, i, n) \in Seq(S) /\ Len(ReadMany(p, i, n)) = n
           /\ n \in Nat => ReadMany(p, i, n) = SubSeq(p, i + 1, i + n)
           /\ Range(ReadMany(p, i, n)) \subseteq S
<1>1. DOMAIN p = 1..Len(p) /\ Len(p) \in Nat /\ \A k \in 1..Len(p) : p[k] \in S
  BY LenProperties, ElementOfSeq
<1>2. \A k \in 1..n : i + k \in DOMAIN p /\ p[i + k] \in S
  BY <1>1
<1>3. ReadMany(p, i, n) = [k \in 1..n |-> p[i + k]]
  BY <1>2 DEF ReadMany, Read
<1>4. Range(ReadMany(p, i, n)) \subseteq S
  BY <1>2, <1>3 DEF Range
<1>5. ASSUME n \in Nat
      PROVE  ReadMany(p, i, n) \in Seq(S) /\ Len(ReadMany(p, i, n)) = n
             /\ ReadMany(p, i, n) = SubSeq(p, i + 1, i + n)
  <2>1. ReadMany(p, i, n) \in Seq(S) /\ Len(ReadMany(p, i, n)) = n
    BY <1>2, <1>3, <1>5
  <2>2. SubSeq(p, i + 1, i + n) = [k \in 1..n |-> p[i + k]]
    BY <1>1, <1>5 DEF SubSeq
  <2> QED
    BY <1>3, <2>1, <2>2
<1> QED
  BY <1>2, <1>3, <1>4, <1>5

\* A parcel of numbers alone.
LEMMA AllNumbers ==
    ASSUME NEW request, NEW p, ParcelOf(request, p), StringsIn(request) = {}
    PROVE  p \in Seq(Int)
<1>1. p \in Seq(Values) /\ \A i \in DOMAIN p : p[i] # Null
  BY DEF ParcelOf
<1>2. Len(p) \in Nat /\ p = [i \in 1..Len(p) |-> p[i]] /\ \A i \in 1..Len(p) : p[i] \in Int
  BY <1>1, LenProperties, ElementOfSeq DEF Values
<1>3. [i \in 1..Len(p) |-> p[i]] \in Seq(Int)
  BY <1>2, IsASeq
<1> QED
  BY <1>2, <1>3

\* The parcel a value of a parcel stands in.
LEMMA ReadIs ==
    ASSUME NEW request, NEW p, ParcelOf(request, p)
    PROVE  /\ Len(p) \in Nat /\ DOMAIN p = 1..Len(p)
           /\ \A i \in 1..Len(p) : Read(p, i) = p[i] /\ p[i] \in Values
                                   /\ (i \notin StringsIn(request) => p[i] # Null)
<1>1. p \in Seq(Values)
  BY DEF ParcelOf
<1>2. Len(p) \in Nat /\ DOMAIN p = 1..Len(p) /\ \A i \in 1..Len(p) : p[i] \in Values
  BY <1>1, LenProperties, ElementOfSeq
<1> QED
  BY <1>2 DEF ParcelOf, Read

\* A structure that is read in order: its field i is the i-th value.
LEMMA StructRead ==
    ASSUME NEW request, NEW p, ParcelOf(request, p), NEW n \in Nat, NEW i \in 1..n,
           i <= Len(p), i \notin StringsIn(request)
    PROVE  ReadMany(p, 0, n)[i] # Null
<1>1. ReadMany(p, 0, n)[i] = Read(p, 0 + i)
  BY DEF ReadMany
<1>2. i \in 1..Len(p)
  BY ReadIs
<1> QED
  BY <1>1, <1>2, ReadIs

\* The entries of a broadcast configuration, of w values each.
Entries(p, w) == [k \in 1..p[1] |-> [ReadGroups(p, 1, p[1], w)[k] EXCEPT ![w] = byte(@)]]
LEMMA EntriesAre ==
    ASSUME NEW p \in Seq(Int), NEW w \in {3, 5}, Len(p) >= 1, Len(p) >= 1 + w * p[1]
    PROVE  /\ p[1] \in Int
           /\ \A k \in 1..p[1] :
                /\ Entries(p, w)[k] \in Seq(Int) /\ Len(Entries(p, w)[k]) = w
                /\ \A i \in 1..w : Entries(p, w)[k][i] =
                        IF i = w THEN byte(p[1 + (k - 1) * w + i]) ELSE p[1 + (k - 1) * w + i]
           /\ p[1] \in Nat => Entries(p, w) \in Seq(Seq(Int)) /\ Len(Entries(p, w)) = p[1]
<1>1. DOMAIN p = 1..Len(p) /\ Len(p) \in Nat /\ p[1] \in Int /\ \A i \in 1..Len(p) : p[i] \in Int
  BY LenProperties, ElementOfSeq
<1>2. ASSUME NEW k \in 1..p[1]
      PROVE  /\ Entries(p, w)[k] \in Seq(Int) /\ Len(Entries(p, w)[k]) = w
             /\ \A i \in 1..w : Entries(p, w)[k][i] =
                        IF i = w THEN byte(p[1 + (k - 1) * w + i]) ELSE p[1 + (k - 1) * w + i]
  <2> DEFINE at == 1 + (k - 1) * w
             group == ReadMany(p, at, w)
  <2>1. at \in Nat /\ at + w <= Len(p) /\ w \in Nat /\ w \in 1..w /\ at \in Int
    <3>1. CASE w = 3
      BY <1>1, <3>1
    <3>2. CASE w = 5
      BY <1>1, <3>2
    <3> QED
      BY <3>1, <3>2
  <2>2. Entries(p, w)[k] = [group EXCEPT ![w] = byte(@)]
    BY DEF Entries, ReadGroups
  <2> HIDE DEF at
  <2>3. group = [i \in 1..w |-> p[at + i]] /\ \A i \in 1..w : p[at + i] \in Int
    <3>1. w \in Int
      BY <2>1
    <3>2. at \in Nat /\ at + w <= Len(p)
      BY <2>1
    <3>3. \A i \in 1..w : at + i \in DOMAIN p /\ p[at + i] \in Int
      BY <3>1, <3>2, ReadManyIs
    <3>4. ReadMany(p, at, w) = [i \in 1..w |-> p[at + i]]
      BY <3>3 DEF ReadMany, Read
    <3> QED
      BY <3>3, <3>4
  <2> HIDE DEF group
  <2>4. Entries(p, w)[k] = [i \in 1..w |-> IF i = w THEN byte(p[at + i]) ELSE p[at + i]]
    BY <2>1, <2>2, <2>3
  <2>5. \A i \in 1..w : byte(p[at + i]) \in Int
    BY SMTT(30), <2>3 DEF byte
  <2>6. Entries(p, w)[k] \in Seq(Int) /\ Len(Entries(p, w)[k]) = w
    <3> DEFINE V(i) == IF i = w THEN byte(p[at + i]) ELSE p[at + i]
    <3>1. \A i \in 1..w : V(i) \in Int
      BY <2>3, <2>5
    <3>2. Entries(p, w)[k] = [i \in 1..w |-> V(i)]
      BY <2>4
    <3> HIDE DEF V
    <3>3. [i \in 1..w |-> V(i)] \in Seq(Int) /\ Len([i \in 1..w |-> V(i)]) = w
      BY <2>1, <3>1, IsASeq
    <3> QED
      BY <3>2, <3>3
  <2> QED
    BY <2>4, <2>6 DEF at
<1>3. ASSUME p[1] \in Nat PROVE Entries(p, w) \in Seq(Seq(Int)) /\ Len(Entries(p, w)) = p[1]
  <2> DEFINE Entry(k) == [ReadGroups(p, 1, p[1], w)[k] EXCEPT ![w] = byte(@)]
  <2>1. Entries(p, w) = [k \in 1..p[1] |-> Entry(k)]
    BY DEF Entries
  <2>2. \A k \in 1..p[1] : Entry(k) \in Seq(Int)
    BY <1>2, <2>1
  <2> HIDE DEF Entry
  <2>3. [k \in 1..p[1] |-> Entry(k)] \in Seq(Seq(Int)) /\ Len([k \in 1..p[1] |-> Entry(k)]) = p[1]
    BY SMTT(30), <1>3, <2>2, IsASeq
  <2> QED
    BY <2>1, <2>3
<1> QED
  BY <1>1, <1>2, <1>3

LEMMA KeptIs ==
    ASSUME NEW count \in Values, NEW max \in Nat
    PROVE  Kept(count, max) \in Nat
<1>1. Null \notin Int
  BY MarshalAssumption
<1> QED
  BY <1>1 DEF Kept, least, Values

\* Where the arrays of a message end, and the message.
LEMMA EndIs ==
    ASSUME NEW p \in Seq(Int), NEW i \in Int, NEW max \in Nat
    PROVE  /\ Kept(Read(p, i), max) \in Nat
           /\ i \in 1..Len(p) => Read(p, i) = p[i] /\ p[i] \in Int
<1>1. DOMAIN p = 1..Len(p) /\ \A k \in 1..Len(p) : p[k] \in Int
  BY LenProperties, ElementOfSeq
<1>2. Read(p, i) \in Values
  BY <1>1 DEF Read, Values
<1> QED
  BY <1>1, <1>2, KeptIs DEF Read

\* What dispatchCdmaSms reads, of a parcel whose bytes are bytes.
Trusted(p) == ReadParcel(p, TRUE)
LEMMA DispatchSms ==
    ASSUME NEW p, NEW q, q = Octets(p, TRUE)
    PROVE  dispatchCdmaSms(p) = IF Len(p) < Trusted(q).end THEN Refused ELSE Calls(Trusted(q).message, 1)
  BY Zenon DEF dispatchCdmaSms, ReadMessage, Trusted

LEMMA OctetsAre ==
    ASSUME NEW p \in Seq(Int)
    PROVE  Octets(p, TRUE) \in Seq(Int) /\ Len(Octets(p, TRUE)) = Len(p)
<1>1. DOMAIN p = 1..Len(p) /\ Len(p) \in Nat /\ \A k \in 1..Len(p) : p[k] \in Int
  BY LenProperties, ElementOfSeq
<1>2. \A n \in Int : byte(n) \in Int
  BY DEF byte
<1>3. PICK whole : Octets(p, TRUE) = [i \in DOMAIN p |-> IF i \in whole THEN p[i] ELSE byte(p[i])]
  BY Zenon DEF Octets
<1>4. \A i \in 1..Len(p) : (IF i \in whole THEN p[i] ELSE byte(p[i])) \in Int
  BY <1>1, <1>2
<1> DEFINE Octet(i) == IF i \in whole THEN p[i] ELSE byte(p[i])
<1>5. Octets(p, TRUE) = [i \in 1..Len(p) |-> Octet(i)] /\ \A i \in 1..Len(p) : Octet(i) \in Int
  BY <1>1, <1>3, <1>4
<1> HIDE DEF Octet
<1>6. [i \in 1..Len(p) |-> Octet(i)] \in Seq(Int)
  BY <1>1, <1>5, IsASeq
<1>7. Len([i \in 1..Len(p) |-> Octet(i)]) = Len(p)
  BY <1>1, <1>6, LenProperties
<1> QED
  BY <1>5, <1>6, <1>7

\* A CDMA message: its values lie in the parcel one after the other.
MessageParts(p, a, b, c) ==
    Message(ReadMany(p, 0, 7), p[8], ReadMany(p, 8, a - 8), ReadMany(p, a, 2), p[a + 3],
            ReadMany(p, a + 3, b - a - 3), p[b + 1], ReadMany(p, b + 1, c - b - 1))
PartsOf(p, a, b, c) ==
    /\ a = 8 + Kept(p[8], AddressMax) /\ b = a + 3 + Kept(p[a + 3], SubaddressMax)
    /\ c = b + 1 + Kept(p[b + 1], BearerMax)
    /\ 8 <= a /\ a + 3 <= b /\ b + 1 <= c /\ c <= Len(p)
    /\ p[8] \in Int /\ p[a + 3] \in Int /\ p[b + 1] \in Int

LEMMA MessageRead ==
    ASSUME NEW p \in Seq(Int)
    PROVE  /\ Trusted(p).end \in Nat
           /\ Trusted(p).end <= Len(p) =>
                \E a, b, c \in Nat :
                  /\ PartsOf(p, a, b, c) /\ Trusted(p).end = c
                  /\ Trusted(p).message = MessageParts(p, a, b, c)
<1> DEFINE k1 == Kept(Read(p, 8), AddressMax)
           a == 8 + k1
           k2 == Kept(Read(p, a + 3), SubaddressMax)
           b == a + 3 + k2
           k3 == Kept(Read(p, b + 1), BearerMax)
           c == b + 1 + k3
<1>1. /\ Trusted(p).end = c
      /\ Trusted(p).message =
            Message(ReadMany(p, 0, 7), Read(p, 8), ReadMany(p, 8, a - 8), ReadMany(p, a, 2),
                    Read(p, a + 3), ReadMany(p, a + 3, b - a - 3), Read(p, b + 1),
                    ReadMany(p, b + 1, c - b - 1))
  BY DEF Trusted, ReadParcel
<1>2. AddressMax \in Nat /\ SubaddressMax \in Nat /\ BearerMax \in Nat /\ Len(p) \in Nat
  BY LenProperties, MarshalAssumption
<1>3. k1 \in Nat /\ (8 \in 1..Len(p) => Read(p, 8) = p[8] /\ p[8] \in Int)
  BY <1>2, EndIs
<1>4. k1 = Kept(Read(p, 8), AddressMax)
  OBVIOUS
<1> HIDE DEF k1
<1>5. a \in Nat /\ 8 <= a /\ a + 3 \in Int
  BY <1>3
<1>6. a = 8 + k1
  OBVIOUS
<1> HIDE DEF a
<1>7. k2 \in Nat /\ (a + 3 \in 1..Len(p) => Read(p, a + 3) = p[a + 3] /\ p[a + 3] \in Int)
  BY <1>2, <1>5, EndIs
<1>8. k2 = Kept(Read(p, a + 3), SubaddressMax)
  OBVIOUS
<1> HIDE DEF k2
<1>9. b \in Nat /\ a + 3 <= b /\ b + 1 \in Int
  BY <1>5, <1>7
<1>10. b = a + 3 + k2
  OBVIOUS
<1> HIDE DEF b
<1>11. k3 \in Nat /\ (b + 1 \in 1..Len(p) => Read(p, b + 1) = p[b + 1] /\ p[b + 1] \in Int)
  BY <1>2, <1>9, EndIs
<1>12. k3 = Kept(Read(p, b + 1), BearerMax)
  OBVIOUS
<1> HIDE DEF k3
<1>13. c \in Nat /\ b + 1 <= c
  BY <1>9, <1>11
<1>14. c = b + 1 + k3
  OBVIOUS
<1> HIDE DEF c
<1>15. ASSUME c <= Len(p)
       PROVE  PartsOf(p, a, b, c) /\ Trusted(p).message = MessageParts(p, a, b, c)
  <2>1. 8 \in 1..Len(p) /\ a + 3 \in 1..Len(p) /\ b + 1 \in 1..Len(p)
    BY <1>2, <1>5, <1>9, <1>13, <1>15
  <2>2. /\ Read(p, 8) = p[8] /\ Read(p, a + 3) = p[a + 3] /\ Read(p, b + 1) = p[b + 1]
        /\ p[8] \in Int /\ p[a + 3] \in Int /\ p[b + 1] \in Int
    BY <1>3, <1>7, <1>11, <2>1
  <2>3. Trusted(p).message = MessageParts(p, a, b, c)
    BY <1>1, <2>2 DEF MessageParts
  <2>4. /\ a = 8 + Kept(p[8], AddressMax) /\ b = a + 3 + Kept(p[a + 3], SubaddressMax)
        /\ c = b + 1 + Kept(p[b + 1], BearerMax)
    BY <1>4, <1>6, <1>8, <1>10, <1>12, <1>14, <2>2
  <2> QED
    BY <1>5, <1>9, <1>13, <1>15, <2>2, <2>3, <2>4 DEF PartsOf
<1> QED
  BY <1>1, <1>5, <1>9, <1>13, <1>15

LEMMA MessageFields ==
    ASSUME NEW head, NEW n, NEW digits, NEW sub, NEW m, NEW subDigits, NEW bearerLen, NEW bearer
    PROVE  LET r == Message(head, n, digits, sub, m, subDigits, bearerLen, bearer)
           IN  /\ r.head = head /\ r.n = n /\ r.digits = digits /\ r.sub = sub /\ r.m = m
               /\ r.subDigits = subDigits /\ r.bearerLen = bearerLen /\ r.bearer = bearer
  BY DEF Message

\* Its fields, and how much of each array is kept.
FieldsAre(p, a, b, c, m) ==
    /\ m.head = ReadMany(p, 0, 7) /\ m.n = p[8] /\ m.digits = ReadMany(p, 8, a - 8)
    /\ m.sub = ReadMany(p, a, 2) /\ m.m = p[a + 3] /\ m.subDigits = ReadMany(p, a + 3, b - a - 3)
    /\ m.bearerLen = p[b + 1] /\ m.bearer = ReadMany(p, b + 1, c - b - 1)
    /\ Kept(m.n, AddressMax) = a - 8 /\ Kept(m.m, SubaddressMax) = b - a - 3
    /\ Kept(m.bearerLen, BearerMax) = c - b - 1
LEMMA MessageIs ==
    ASSUME NEW p \in Seq(Int), NEW a \in Nat, NEW b \in Nat, NEW c \in Nat,
           PartsOf(p, a, b, c), NEW m, m = MessageParts(p, a, b, c)
    PROVE  FieldsAre(p, a, b, c, m)
<1>p. PartsOf(p, a, b, c)
  OBVIOUS
<1> DEFINE head == ReadMany(p, 0, 7)
           n == p[8]
           digits == ReadMany(p, 8, a - 8)
           sub == ReadMany(p, a, 2)
           k == p[a + 3]
           subDigits == ReadMany(p, a + 3, b - a - 3)
           bearerLen == p[b + 1]
           bearer == ReadMany(p, b + 1, c - b - 1)
<1>1. m = Message(head, n, digits, sub, k, subDigits, bearerLen, bearer)
  BY DEF MessageParts
<1> HIDE DEF head, n, digits, sub, k, subDigits, bearerLen, bearer
<1>4. /\ m.head = head /\ m.n = n /\ m.digits = digits /\ m.sub = sub /\ m.m = k
      /\ m.subDigits = subDigits /\ m.bearerLen = bearerLen /\ m.bearer = bearer
  BY <1>1 DEF Message
<1>7. /\ Kept(m.n, AddressMax) = a - 8 /\ Kept(m.m, SubaddressMax) = b - a - 3
      /\ Kept(m.bearerLen, BearerMax) = c - b - 1
  <2>1. Kept(p[8], AddressMax) \in Int /\ Kept(p[a + 3], SubaddressMax) \in Int
        /\ Kept(p[b + 1], BearerMax) \in Int
    <3>1. p[8] \in Values /\ p[a + 3] \in Values /\ p[b + 1] \in Values
      BY <1>p DEF PartsOf, Values
    <3>2. AddressMax \in Nat /\ SubaddressMax \in Nat /\ BearerMax \in Nat
      BY MarshalAssumption
    <3>3. Kept(p[8], AddressMax) \in Nat
      BY <3>1, <3>2, KeptIs
    <3>4. Kept(p[a + 3], SubaddressMax) \in Nat
      BY <3>1, <3>2, KeptIs
    <3>5. Kept(p[b + 1], BearerMax) \in Nat
      BY <3>1, <3>2, KeptIs
    <3> QED
      BY <3>3, <3>4, <3>5
  <2>k. /\ a = 8 + Kept(p[8], AddressMax) /\ b = (a + 3) + Kept(p[a + 3], SubaddressMax)
        /\ c = (b + 1) + Kept(p[b + 1], BearerMax)
    BY <1>p DEF PartsOf
  <2>2. Kept(m.n, AddressMax) = a - 8
    <3>1. Kept(p[8], AddressMax) = a - 8
      <4>1. \A y \in Int : a = 8 + y => y = a - 8
        OBVIOUS
      <4> QED
        BY <2>1, <2>k, <4>1
    <3> QED
      BY <1>4, <3>1 DEF n, k, bearerLen
  <2>3. Kept(m.m, SubaddressMax) = b - a - 3
    <3>1. Kept(p[a + 3], SubaddressMax) = b - (a + 3)
      <4>1. \A y \in Int : b = (a + 3) + y => y = b - (a + 3)
        OBVIOUS
      <4> QED
        BY <2>1, <2>k, <4>1
    <3> QED
      BY <1>4, <3>1 DEF n, k, bearerLen
  <2>4. Kept(m.bearerLen, BearerMax) = c - b - 1
    <3>1. Kept(p[b + 1], BearerMax) = c - (b + 1)
      <4>1. \A y \in Int : c = (b + 1) + y => y = c - (b + 1)
        OBVIOUS
      <4> QED
        BY <2>1, <2>k, <4>1
    <3> QED
      BY <1>4, <3>1 DEF n, k, bearerLen
  <2> QED
    BY <2>2, <2>3, <2>4
<1> QED
  BY <1>4, <1>7 DEF FieldsAre, head, n, digits, sub, k, subDigits, bearerLen, bearer

\* What a message read whole is made of.
LEMMA MessageWhole ==
    ASSUME NEW p \in Seq(Int), Trusted(p).end <= Len(p),
           NEW m, m = Trusted(p).message
    PROVE  /\ CdmaMessage(m)
           /\ {m.head, m.digits, m.sub, m.subDigits, m.bearer} \subseteq Seq(Int)
<1>1. PICK a, b, c \in Nat : PartsOf(p, a, b, c) /\ m = MessageParts(p, a, b, c)
  BY MessageRead
<1>p. PartsOf(p, a, b, c)
  BY <1>1
<1>2. Len(p) \in Nat
  BY LenProperties
<1>3. \A i, n \in Nat : i + n <= Len(p) => ReadMany(p, i, n) \in Seq(Int) /\ Len(ReadMany(p, i, n)) = n
  BY ReadManyIs
<1>q. 8 <= a /\ a + 3 <= b /\ b + 1 <= c /\ c <= Len(p)
  BY <1>p DEF PartsOf
<1>m. m = MessageParts(p, a, b, c)
  BY <1>1
<1>f. FieldsAre(p, a, b, c, m)
  BY <1>m, <1>p, MessageIs
<1>4. /\ m.head = ReadMany(p, 0, 7) /\ m.n = p[8] /\ m.digits = ReadMany(p, 8, a - 8)
      /\ m.sub = ReadMany(p, a, 2) /\ m.m = p[a + 3] /\ m.subDigits = ReadMany(p, a + 3, b - a - 3)
      /\ m.bearerLen = p[b + 1] /\ m.bearer = ReadMany(p, b + 1, c - b - 1)
  BY <1>f DEF FieldsAre
<1>5. /\ m.head \in Seq(Int) /\ m.digits \in Seq(Int) /\ m.sub \in Seq(Int)
      /\ m.subDigits \in Seq(Int) /\ m.bearer \in Seq(Int)
      /\ Len(m.digits) = a - 8 /\ Len(m.subDigits) = b - a - 3 /\ Len(m.bearer) = c - b - 1
  <2>1. a - 8 \in Nat /\ b - a - 3 \in Nat /\ c - b - 1 \in Nat /\ a + 3 \in Nat /\ b + 1 \in Nat
        /\ 0 + 7 <= Len(p) /\ 8 + (a - 8) <= Len(p) /\ a + 2 <= Len(p)
        /\ (a + 3) + (b - a - 3) <= Len(p) /\ (b + 1) + (c - b - 1) <= Len(p)
    BY <1>2, <1>q
  <2>2. m.head \in Seq(Int)
    BY <1>3, <1>4, <2>1
  <2>3. m.digits \in Seq(Int) /\ Len(m.digits) = a - 8
    BY ZenonT(30), <1>3, <1>4, <2>1
  <2>4. m.sub \in Seq(Int)
    BY <1>3, <1>4, <2>1
  <2>5. m.subDigits \in Seq(Int) /\ Len(m.subDigits) = b - a - 3
    BY <1>3, <1>4, <2>1
  <2>6. m.bearer \in Seq(Int) /\ Len(m.bearer) = c - b - 1
    BY <1>3, <1>4, <2>1
  <2> QED
    BY <2>2, <2>3, <2>4, <2>5, <2>6
<1>6. Seq(Int) \subseteq Seq(Values)
  <2>1. ASSUME NEW s \in Seq(Int) PROVE s \in Seq(Values)
    <3>1. Len(s) \in Nat /\ s = [i \in 1..Len(s) |-> s[i]] /\ \A i \in 1..Len(s) : s[i] \in Values
      BY LenProperties, ElementOfSeq DEF Values
    <3>2. [i \in 1..Len(s) |-> s[i]] \in Seq(Values)
      BY <3>1, IsASeq
    <3> QED
      BY <3>1, <3>2
  <2> QED
    BY <2>1
<1>7. /\ Kept(m.n, AddressMax) <= Len(m.digits) /\ Kept(m.m, SubaddressMax) <= Len(m.subDigits)
      /\ Kept(m.bearerLen, BearerMax) <= Len(m.bearer)
  <2>1. /\ Kept(m.n, AddressMax) = a - 8 /\ Kept(m.m, SubaddressMax) = b - a - 3
        /\ Kept(m.bearerLen, BearerMax) = c - b - 1
    BY <1>f DEF FieldsAre
  <2> QED
    BY SMTT(30), <1>5, <2>1
<1> QED
  BY <1>4, <1>5, <1>6, <1>7, <1>p DEF CdmaMessage, PartsOf

\* A command that calls the library was read whole.
LEMMA ReadWhole ==
    ASSUME NEW request \in RequestCodes, NEW p, ParcelOf(request, p),
           dispatchFunction(request, p).calls
    PROVE  Null \notin Numbers(request, dispatchFunction(request, p).data)
<1> DEFINE d == dispatchFunction(request, p)
<1>0. Null \notin Int /\ Refused.calls = FALSE
      /\ \A data, len : Calls(data, len).data = data /\ Calls(data, len).calls = TRUE
  BY MarshalAssumption DEF Refused, Calls
<1>r. Len(p) \in Nat /\ DOMAIN p = 1..Len(p)
  BY ReadIs
<1>s. ASSUME NEW n \in Nat, NEW data, data = ReadMany(p, 0, n), NEW m \in Nat, m <= n, m <= Len(p)
      PROVE  \A i \in 1..m : i \notin StringsIn(request) => data[i] # Null
  BY <1>s, <1>r, StructRead
<1>1. CASE request \in VoidRequests \union StringRequests \union StringsRequests
                            \union {"OEM_HOOK_RAW", "CDMA_WRITE_SMS_TO_RUIM"}
  BY <1>1, NumbersIs
<1>2. CASE request \in IntsRequests
  <2>1. d = dispatchInts(p) /\ p \in Seq(Int) /\ Numbers(request, d.data) = Range(d.data)
    BY <1>2, DispatchIs, NumbersIs, StringsInIs, AllNumbers
  <2>2. Len(p) >= 1 /\ Len(p) >= 1 + p[1] /\ p[1] \in Int /\ d.data = ReadMany(p, 1, p[1])
    <3>1. ~(Len(p) < 1)
      BY <1>0, <2>1 DEF dispatchInts
    <3>2. p[1] \in Int
      BY <1>r, <2>1, <3>1, ElementOfSeq
    <3> QED
      BY <1>0, <1>r, <2>1, <3>1, <3>2 DEF dispatchInts
  <2>3. Range(d.data) \subseteq Int
    <3>1. Range(ReadMany(p, 1, p[1])) \subseteq Int
      BY <1>r, <2>1, <2>2, ReadManyIs
    <3> QED
      BY <2>2, <3>1
  <2> QED
    BY <1>0, <2>1, <2>3
<1>3. CASE request \in CallForwardRequests
  <2>1. d = dispatchCallForward(p) /\ StringsIn(request) = {5}
        /\ Numbers(request, d.data) = {d.data[i] : i \in {1, 2, 3, 4, 6}}
    BY <1>3, DispatchIs, NumbersIs, StringsInIs
  <2> DEFINE raw == ReadMany(p, 0, 6)
  <2>2. Len(p) >= 6 /\ d.data = [raw EXCEPT ![5] = IF @ = 0 THEN Null ELSE @]
    BY <1>0, <1>r, <2>1 DEF dispatchCallForward
  <2>3. \A i \in 1..6 : i # 5 => raw[i] # Null
    BY <1>r, <1>s, <2>1, <2>2
  <2>4. \A i \in {1, 2, 3, 4, 6} : d.data[i] = raw[i]
    BY <2>2 DEF ReadMany
  <2> HIDE DEF raw, d
  <2> QED
    BY <2>1, <2>3, <2>4 DEF d
<1>4. CASE request = "DIAL"
  <2>1. d = dispatchDial(p) /\ StringsIn(request) = {1} /\ Numbers(request, d.data) = {d.data[2]}
    BY <1>4, DispatchIs, NumbersIs, StringsInIs
  <2>2. Len(p) >= 2 /\ d.data = ReadMany(p, 0, 2)
    BY <1>0, <1>r, <2>1 DEF dispatchDial
  <2>3. d.data[2] # Null
    BY <1>r, <1>s, <2>1, <2>2
  <2> QED
    BY <2>1, <2>3
<1>5. CASE request = "SIM_IO"
  <2>1. d = dispatchSIM_IO(p) /\ StringsIn(request) = {3, 7, 8}
        /\ Numbers(request, d.data) = {d.data[i] : i \in {1, 2, 4, 5, 6}}
    BY <1>5, DispatchIs, NumbersIs, StringsInIs
  <2>2. Len(p) >= 6 /\ d.data = ReadMany(p, 0, 8)
    BY <1>0, <1>r, <2>1 DEF dispatchSIM_IO
  <2>3. \A i \in 1..6 : i # 3 => d.data[i] # Null
    BY <1>r, <1>s, <2>1, <2>2
  <2> HIDE DEF d
  <2> QED
    BY <2>1, <2>3 DEF d
<1>6. CASE request = "WRITE_SMS_TO_SIM"
  <2>1. d = dispatchSmsWrite(p) /\ StringsIn(request) = {2, 3} /\ Numbers(request, d.data) = {d.data[1]}
    BY <1>6, DispatchIs, NumbersIs, StringsInIs
  <2>2. Len(p) >= 1 /\ d.data = ReadMany(p, 0, 3)
    BY <1>0, <1>r, <2>1 DEF dispatchSmsWrite
  <2>3. d.data[1] # Null
    BY <1>r, <1>s, <2>1, <2>2
  <2> QED
    BY <2>1, <2>3
<1>7. CASE request = "CDMA_SMS_ACKNOWLEDGE"
  <2>1. d = dispatchCdmaSmsAck(p) /\ p \in Seq(Int) /\ Numbers(request, d.data) = Range(d.data)
    BY <1>7, DispatchIs, NumbersIs, StringsInIs, AllNumbers
  <2>2. Len(p) >= 2 /\ d.data = ReadMany(p, 0, 2)
    BY <1>0, <1>r, <2>1 DEF dispatchCdmaSmsAck
  <2>3. Range(d.data) \subseteq Int
    BY <1>r, <2>1, <2>2, ReadManyIs
  <2> QED
    BY <1>0, <2>1, <2>3
<1>8. CASE request \in {"GSM_SET_BROADCAST_SMS_CONFIG", "CDMA_SET_BROADCAST_SMS_CONFIG"}
  <2> DEFINE w == IF request = "GSM_SET_BROADCAST_SMS_CONFIG" THEN 5 ELSE 3
  <2>1. p \in Seq(Int) /\ w \in {3, 5}
        /\ Numbers(request, d.data) = UNION {Range(d.data[i]) : i \in DOMAIN d.data}
    BY <1>8, NumbersIs, StringsInIs, AllNumbers
  <2>2. Len(p) >= 1 /\ Len(p) >= 1 + w * p[1] /\ d.data = Entries(p, w)
    <3>1. CASE request = "GSM_SET_BROADCAST_SMS_CONFIG"
      <4>1. d = dispatchGsmBrSmsCnf(p)
        BY <3>1, DispatchIs
      <4>2. ~(Len(p) < 1)
        BY <1>0, <4>1 DEF dispatchGsmBrSmsCnf
      <4>3. p[1] \in Int
        BY <1>r, <2>1, <4>2, ElementOfSeq
      <4> QED
        BY <1>0, <1>r, <3>1, <4>1, <4>2, <4>3 DEF dispatchGsmBrSmsCnf, Entries
    <3>2. CASE request = "CDMA_SET_BROADCAST_SMS_CONFIG"
      <4>1. d = dispatchCdmaBrSmsCnf(p)
        BY <3>2, DispatchIs
      <4>2. ~(Len(p) < 1)
        BY <1>0, <4>1 DEF dispatchCdmaBrSmsCnf
      <4>3. p[1] \in Int
        BY <1>r, <2>1, <4>2, ElementOfSeq
      <4> QED
        BY <1>0, <1>r, <3>2, <4>1, <4>2, <4>3 DEF dispatchCdmaBrSmsCnf, Entries
    <3> QED
      BY <1>8, <3>1, <3>2
  <2> HIDE DEF w, d
  <2>3. DOMAIN d.data = 1..p[1] /\ \A k \in 1..p[1] : d.data[k] \in Seq(Int)
    <3>1. \A k \in 1..p[1] : Entries(p, w)[k] \in Seq(Int)
      BY <2>1, <2>2, EntriesAre
    <3>2. DOMAIN Entries(p, w) = 1..p[1]
      BY DEF Entries
    <3> QED
      BY <2>2, <3>1, <3>2
  <2>4. \A k \in 1..p[1] : Range(d.data[k]) \subseteq Int
    BY <2>3, ElementOfSeq, LenProperties DEF Range
  <2> QED
    BY <1>0, <2>1, <2>3, <2>4 DEF d
<1>9. CASE request = "CDMA_SEND_SMS"
  <2>1. d = dispatchCdmaSms(p) /\ p \in Seq(Int)
        /\ Numbers(request, d.data) = UNION {Range(d.data.head), Range(d.data.digits),
                      Range(d.data.sub), Range(d.data.subDigits), Range(d.data.bearer)}
    BY <1>9, DispatchIs, NumbersIs, StringsInIs, AllNumbers
  <2>q. PICK q : q = Octets(p, TRUE)
    OBVIOUS
  <2>s. q \in Seq(Int) /\ Len(q) = Len(p)
    BY <2>1, <2>q, OctetsAre
  <2>d. dispatchCdmaSms(p) = IF Len(p) < Trusted(q).end THEN Refused ELSE Calls(Trusted(q).message, 1)
    BY <2>q, DispatchSms
  <2>2. ~(Len(p) < Trusted(q).end) /\ d.data = Trusted(q).message
    BY <1>0, <2>1, <2>d DEF Calls
  <2>3. Trusted(q).end <= Len(q)
    <3>1. Trusted(q).end \in Nat
      BY <2>s, MessageRead
    <3> QED
      BY <1>r, <2>s, <2>2, <3>1
  <2>4. {d.data.head, d.data.digits, d.data.sub, d.data.subDigits, d.data.bearer} \subseteq Seq(Int)
    BY <2>s, <2>2, <2>3, MessageWhole
  <2>5. \A s \in Seq(Int) : Range(s) \subseteq Int
    BY ElementOfSeq, LenProperties DEF Range
  <2> HIDE DEF d
  <2> QED
    BY <1>0, <2>1, <2>4, <2>5 DEF d
<1> QED
  BY <1>1, <1>2, <1>3, <1>4, <1>5, <1>6, <1>7, <1>8, <1>9 DEF RequestCodes

-----------------------------------------------------------------------------
(* What a response function writes. *)

\* It refuses and has written nothing, or it writes values.
Carries(r) == r = INVALID_RESPONSE \/ \E out \in Seq(Values) : r = Writes(out)

LEMMA ValueSeqs ==
    /\ <<>> \in Seq(Values) /\ Int \subseteq Values /\ Null \in Values /\ Seq(Int) \subseteq Seq(Values)
    /\ \A v \in Values : <<v>> \in Seq(Values)
    /\ \A s, t \in Seq(Values) : s \o t \in Seq(Values)
<1>1. Int \subseteq Values /\ Null \in Values
  BY DEF Values
<1>2. ASSUME NEW s \in Seq(Int) PROVE s \in Seq(Values)
  <2>1. Len(s) \in Nat /\ s = [i \in 1..Len(s) |-> s[i]] /\ \A i \in 1..Len(s) : s[i] \in Values
    BY LenProperties, ElementOfSeq DEF Values
  <2>2. [i \in 1..Len(s) |-> s[i]] \in Seq(Values)
    BY <2>1, IsASeq
  <2> QED
    BY <2>1, <2>2
<1>3. \A s, t \in Seq(Values) : s \o t \in Seq(Values)
  BY ConcatProperties
<1> QED
  BY <1>1, <1>2, <1>3, EmptySeq

LEMMA FirstElements ==
    ASSUME NEW S, NEW response \in Seq(S), NEW n \in Int, n <= Len(response)
    PROVE  /\ [i \in 1..n |-> response[i]] \in Seq(S)
           /\ SubSeq(response, 1, n) \in Seq(S)
           /\ n \in Nat => Len(SubSeq(response, 1, n)) = n
           /\ n \in Nat => \A i \in 1..n : SubSeq(response, 1, n)[i] = response[i] /\ response[i] \in S
<1>1. Len(response) \in Nat /\ \A i \in 1..Len(response) : response[i] \in S
  BY LenProperties, ElementOfSeq
<1>2. \A i \in 1..n : response[i] \in S
  BY <1>1
<1> DEFINE n0 == IF n \in Nat THEN n ELSE 0
<1>3. n0 \in Nat /\ 1..n = 1..n0 /\ \A i \in 1..n0 : response[i] \in S
  BY <1>2
<1> HIDE DEF n0
<1>4. [i \in 1..n0 |-> response[i]] \in Seq(S)
  BY <1>3, IsASeq
<1>5. SubSeq(response, 1, n) = [i \in 1..n |-> response[i]]
  BY DEF SubSeq
<1>6. [i \in 1..n |-> response[i]] = [i \in 1..n0 |-> response[i]]
  BY <1>3
<1>7. n \in Nat => Len(SubSeq(response, 1, n)) = n
  BY <1>5
<1> QED
  BY <1>2, <1>4, <1>5, <1>6, <1>7

LEMMA ArrayCarries ==
    ASSUME NEW response, NEW len, \/ response = Null /\ len = 0
                                  \/ response # Null /\ Elements(Values, response, len)
    PROVE  Carries(Array(response, len))
<1>1. CASE BadArray(response, len)
  BY <1>1 DEF Array, Carries
<1>2. CASE ~BadArray(response, len)
  <2> DEFINE n == len \div ElementSize
             values == [i \in 1..n |-> response[i]]
  <2>1. Array(response, len) = Writes(<<n>> \o values)
    BY <1>2 DEF Array
  <2>2. n \in Int
    BY DEF Elements, ElementSize
  <2>3. values \in Seq(Values)
    <3>1. CASE len = 0
      <4>1. n = 0
        BY <3>1 DEF ElementSize
      <4> HIDE DEF n
      <4>2. values = <<>>
        BY <4>1
      <4> QED
        BY <4>2, ValueSeqs
    <3>2. CASE Elements(Values, response, len)
      <4>1. response \in Seq(Values) /\ n <= Len(response)
        BY <3>2 DEF Elements
      <4> HIDE DEF n
      <4> QED
        BY <2>2, <4>1, FirstElements
    <3> QED
      BY <3>1, <3>2
  <2>4. <<n>> \o values \in Seq(Values)
    BY <2>2, <2>3, ValueSeqs
  <2> QED
    BY <2>1, <2>4 DEF Carries
<1> QED
  BY <1>1, <1>2

LEMMA ArrayOfStructsCarries ==
    ASSUME NEW response, NEW len, \/ response = Null /\ len = 0
                                  \/ response # Null /\ Elements(Seq(Values), response, len)
    PROVE  Carries(ArrayOfStructs(response, len))
<1>1. CASE BadArray(response, len)
  BY <1>1 DEF ArrayOfStructs, Carries
<1>2. CASE ~BadArray(response, len)
  <2> DEFINE n == len \div ElementSize
             structs == [i \in 1..n |-> response[i]]
  <2>1. ArrayOfStructs(response, len) = Writes(<<n>> \o FlattenSeq(structs))
    BY <1>2 DEF ArrayOfStructs
  <2>2. n \in Int
    BY DEF Elements, ElementSize
  <2>3. structs \in Seq(Seq(Values))
    <3>1. CASE len = 0
      <4>1. n = 0
        BY <3>1 DEF ElementSize
      <4> HIDE DEF n
      <4>2. structs = <<>>
        BY <4>1
      <4> QED
        BY <4>2, EmptySeq
    <3>2. CASE Elements(Seq(Values), response, len)
      <4>1. response \in Seq(Seq(Values)) /\ n <= Len(response)
        BY <3>2 DEF Elements
      <4> HIDE DEF n
      <4> QED
        BY <2>2, <4>1, FirstElements
    <3> QED
      BY <3>1, <3>2
  <2>4. <<n>> \o FlattenSeq(structs) \in Seq(Values)
    BY <2>2, <2>3, Flattened, ValueSeqs
  <2> QED
    BY <2>1, <2>4 DEF Carries
<1> QED
  BY <1>1, <1>2

LEMMA StructCarries ==
    ASSUME NEW response, NEW len, response # Null => Structure(response)
    PROVE  Carries(Struct(response, len))
<1>1. CASE response = Null \/ len # ElementSize
  BY <1>1 DEF Struct, Carries
<1>2. CASE response # Null /\ len = ElementSize
  <2>1. response \in Seq(Seq(Values)) /\ response # <<>>
    BY <1>2 DEF Structure
  <2>2. response[1] \in Seq(Values)
    BY <2>1, ElementOfSeq, EmptySeq, LenProperties
  <2> QED
    BY <1>2, <2>2 DEF Struct, Carries
<1> QED
  BY <1>1, <1>2

LEMMA StringCarries ==
    ASSUME NEW response, NEW len, response # Null => response \in Seq(Values) /\ response # <<>>
    PROVE  Carries(responseString(response, len))
<1> DEFINE v == IF response = Null THEN Null ELSE response[1]
<1>1. response # Null => response[1] \in Values
  BY ElementOfSeq, EmptySeq, LenProperties
<1>2. v \in Values
  BY <1>1, ValueSeqs
<1>3. responseString(response, len) = Writes(<<v>>)
  BY DEF responseString
<1> QED
  BY <1>2, <1>3, ValueSeqs DEF Carries

LEMMA VoidCarries ==
    ASSUME NEW response, NEW len
    PROVE  Carries(responseVoid(response, len))
  BY ValueSeqs DEF Carries, responseVoid

LEMMA RawCarries ==
    ASSUME NEW response, NEW len, \/ response = Null /\ len = 0
                                  \/ response # Null /\ Elements(Values, response, len)
    PROVE  Carries(responseRaw(response, len))
<1>1. CASE response = Null
  <2>1. responseRaw(response, len) = Writes(<<-1>>)
    BY <1>1 DEF responseRaw
  <2>2. <<-1>> \in Seq(Values)
    BY DEF Values
  <2> QED
    BY <2>1, <2>2 DEF Carries
<1>2. CASE response # Null
  <2>1. responseRaw(response, len) = Writes(<<len \div ElementSize>> \o response)
    BY <1>2 DEF responseRaw
  <2>2. len \div ElementSize \in Int /\ response \in Seq(Values)
    BY <1>2 DEF Elements, ElementSize
  <2>3. <<len \div ElementSize>> \o response \in Seq(Values)
    BY <2>2, ValueSeqs
  <2> QED
    BY <2>1, <2>3 DEF Carries
<1> QED
  BY <1>1, <1>2

LEMMA SignalCarries ==
    ASSUME NEW response, NEW len, \/ response = Null /\ len = 0
                                  \/ response # Null /\ Elements(Values, response, len)
    PROVE  Carries(responseRilSignalStrength(response, len))
<1> DEFINE n == len \div ElementSize
           m == IF n > RIL_SignalStrength THEN n ELSE RIL_SignalStrength
           V(i) == IF i <= n THEN response[i] ELSE 0
<1>1. CASE (response = Null /\ len # 0) \/ len % ElementSize # 0
  BY <1>1 DEF responseRilSignalStrength, Carries
<1>2. CASE ~((response = Null /\ len # 0) \/ len % ElementSize # 0)
  <2>1. responseRilSignalStrength(response, len) = Writes([i \in 1..m |-> V(i)])
    BY <1>2 DEF responseRilSignalStrength
  <2>2. n \in Int /\ (len = 0 => n = 0)
    BY DEF Elements, ElementSize
  <2>3. ASSUME NEW i \in Nat, 1 <= i PROVE V(i) \in Values
    <3>1. CASE i <= n
      <4>1. response \in Seq(Values) /\ n <= Len(response)
        BY <2>2, <2>3, <3>1 DEF Elements
      <4> HIDE DEF n
      <4>2. response[i] \in Values
        BY <2>2, <2>3, <3>1, <4>1, ElementOfSeq, LenProperties
      <4> QED
        BY <3>1, <4>2
    <3>2. CASE ~(i <= n)
      BY <3>2 DEF Values
    <3> QED
      BY <3>1, <3>2
  <2>4. m \in Nat
    <3> HIDE DEF n
    <3> QED
      BY <2>2 DEF RIL_SignalStrength
  <2> HIDE DEF V, m
  <2>5. [i \in 1..m |-> V(i)] \in Seq(Values)
    BY <2>3, <2>4, IsASeq
  <2> QED
    BY <2>1, <2>5 DEF Carries
<1> QED
  BY <1>1, <1>2

LEMMA SimStatusCarries ==
    ASSUME NEW response, NEW len, response # Null, CardStatus(response)
    PROVE  Carries(responseSimStatus(response, len))
<1>1. CASE BadArray(response, len)
  BY <1>1 DEF responseSimStatus, Carries
<1>2. CASE ~BadArray(response, len)
  <2> DEFINE s == response[1]
             out == s.card \o <<Len(s.applications)>> \o FlattenSeq(s.applications)
  <2>1. responseSimStatus(response, len) = Writes(out)
    BY <1>2 DEF responseSimStatus
  <2>2. s.card \in Seq(Values) /\ s.applications \in Seq(Seq(Values))
    BY DEF CardStatus
  <2> HIDE DEF s
  <2>3. Len(s.applications) \in Values /\ FlattenSeq(s.applications) \in Seq(Values)
    BY <2>2, Flattened, LenProperties DEF Values
  <2>4. s.card \o <<Len(s.applications)>> \in Seq(Values)
    BY <2>2, <2>3, ValueSeqs
  <2>5. out \in Seq(Values)
    BY <2>3, <2>4, ValueSeqs
  <2> QED
    BY <2>1, <2>5 DEF Carries
<1> QED
  BY <1>1, <1>2

\* The arrays of a message are written back as far as they were kept.
LEMMA SmsCarries ==
    ASSUME NEW response, NEW len, response # Null => CdmaMessage(response[1])
    PROVE  Carries(responseCdmaSms(response, len))
<1>1. CASE response = Null \/ len # ElementSize
  BY <1>1 DEF responseCdmaSms, Carries
<1>2. CASE response # Null /\ len = ElementSize
  <2> DEFINE m == response[1]
             digits == SubSeq(m.digits, 1, Kept(m.n, AddressMax))
             subDigits == SubSeq(m.subDigits, 1, Kept(m.m, SubaddressMax))
             bearer == SubSeq(m.bearer, 1, Kept(m.bearerLen, BearerMax))
             out == m.head \o <<m.n>> \o digits \o m.sub \o <<m.m>> \o subDigits \o <<m.bearerLen>> \o bearer
  <2>1. responseCdmaSms(response, len) = Writes(out)
    BY <1>2 DEF responseCdmaSms
  <2>2. CdmaMessage(m)
    BY <1>2
  <2> HIDE DEF m
  <2>3. /\ m.head \in Seq(Values) /\ m.sub \in Seq(Values) /\ m.digits \in Seq(Values)
        /\ m.subDigits \in Seq(Values) /\ m.bearer \in Seq(Values)
        /\ m.n \in Values /\ m.m \in Values /\ m.bearerLen \in Values
    BY <2>2, ValueSeqs DEF CdmaMessage
  <2>4. /\ Kept(m.n, AddressMax) \in Int /\ Kept(m.m, SubaddressMax) \in Int
        /\ Kept(m.bearerLen, BearerMax) \in Int
    <3>1. AddressMax \in Nat /\ SubaddressMax \in Nat /\ BearerMax \in Nat
      BY MarshalAssumption
    <3>2. Kept(m.n, AddressMax) \in Nat
      BY <2>3, <3>1, KeptIs
    <3>3. Kept(m.m, SubaddressMax) \in Nat
      BY <2>3, <3>1, KeptIs
    <3>4. Kept(m.bearerLen, BearerMax) \in Nat
      BY <2>3, <3>1, KeptIs
    <3> QED
      BY <3>2, <3>3, <3>4
  <2>5. digits \in Seq(Values) /\ subDigits \in Seq(Values) /\ bearer \in Seq(Values)
    BY <2>2, <2>3, <2>4, FirstElements DEF CdmaMessage
  <2> HIDE DEF digits, subDigits, bearer
  <2>6. <<m.n>> \in Seq(Values) /\ <<m.m>> \in Seq(Values) /\ <<m.bearerLen>> \in Seq(Values)
    BY <2>3, ValueSeqs
  <2>7. m.head \o <<m.n>> \o digits \o m.sub \in Seq(Values)
    BY <2>3, <2>5, <2>6, ValueSeqs
  <2>8. m.head \o <<m.n>> \o digits \o m.sub \o <<m.m>> \o subDigits \in Seq(Values)
    BY <2>5, <2>6, <2>7, ValueSeqs
  <2>9. out \in Seq(Values)
    BY <2>5, <2>6, <2>8, ValueSeqs
  <2> QED
    BY <2>1, <2>9 DEF Carries
<1> QED
  BY <1>1, <1>2

\* Records are written up to the first that cannot be, and then the event is dropped.
LEMMA RecordsCarry ==
    ASSUME NEW response, NEW len, response # Null => EventOf("CDMA_INFO_REC", response, len),
           responseCdmaInformationRecords(response, len).ret = 0
    PROVE  Carries(responseCdmaInformationRecords(response, len))
<1>1. CASE response = Null \/ len # ElementSize
  BY <1>1 DEF responseCdmaInformationRecords, Carries
<1>2. CASE response # Null /\ len = ElementSize
  <2> DEFINE given == response[1]
             records == SubSeq(given, 1, least(Len(given), MaxInfoRecs))
             bad == {i \in DOMAIN records : ~Marshallable(records[i])}
             good == IF bad = {} THEN Len(records) ELSE (CHOOSE i \in bad : \A j \in bad : i <= j) - 1
             values == [i \in 1..good |-> records[i].values]
             r == responseCdmaInformationRecords(response, len)
  <2>1. /\ r.ret = IF bad = {} THEN 0 ELSE RIL_ERRNO_INVALID_RESPONSE
        /\ r = [ret |-> IF bad = {} THEN 0 ELSE RIL_ERRNO_INVALID_RESPONSE,
                out |-> <<Len(records)>> \o FlattenSeq(values)]
    BY <1>2 DEF responseCdmaInformationRecords
  <2>2. bad = {}
    <3> HIDE DEF bad, values, r
    <3> QED
      BY <2>1 DEF r, RIL_ERRNO_INVALID_RESPONSE
  <2>3. good = Len(records)
    BY <2>2
  <2>4. /\ given \in Seq(Range(given))
        /\ \A record \in Range(given) : record.values \in Seq(Values)
    BY <1>2 DEF EventOf, IntsEvents, StringEvents
  <2> HIDE DEF given
  <2>5. least(Len(given), MaxInfoRecs) \in Nat /\ least(Len(given), MaxInfoRecs) <= Len(given)
    BY <2>4, LenProperties DEF least, MaxInfoRecs
  <2>6. records \in Seq(Range(given))
    BY <2>4, <2>5, FirstElements
  <2> HIDE DEF records
  <2>7. Len(records) \in Nat /\ \A i \in 1..Len(records) : records[i].values \in Seq(Values)
    BY <2>4, <2>6, LenProperties, ElementOfSeq
  <2> HIDE DEF bad, good
  <2>8. values \in Seq(Seq(Values))
    BY <2>3, <2>7, IsASeq
  <2>9. <<Len(records)>> \o FlattenSeq(values) \in Seq(Values)
    <3> HIDE DEF values
    <3> QED
      BY <2>7, <2>8, Flattened, ValueSeqs
  <2>10. r = Writes(<<Len(records)>> \o FlattenSeq(values))
    BY <2>1, <2>2 DEF Writes
  <2> QED
    BY <2>9, <2>10 DEF Carries
<1> QED
  BY SMTT(30), <1>1, <1>2

\* The parcel of a configuration, with "selected" a byte.
LEMMA ConfiguredIs ==
    ASSUME NEW p \in Seq(Int), NEW w \in {3, 5}
    PROVE  /\ Configured(w, p) \in Seq(Int) /\ Len(Configured(w, p)) = Len(p)
           /\ \A i \in 1..Len(p) : Configured(w, p)[i] =
                  IF i > 1 /\ (i - 1) % w = 0 THEN byte(p[i]) ELSE p[i]
<1>1. DOMAIN p = 1..Len(p) /\ Len(p) \in Nat /\ \A i \in 1..Len(p) : p[i] \in Int
  BY LenProperties, ElementOfSeq
<1> DEFINE V(i) == IF i > 1 /\ (i - 1) % w = 0 THEN byte(p[i]) ELSE p[i]
<1>2. Configured(w, p) = [i \in 1..Len(p) |-> V(i)]
  BY <1>1 DEF Configured
<1>3. ASSUME NEW i \in 1..Len(p) PROVE V(i) \in Int
  <2>1. p[i] \in Int /\ byte(p[i]) \in Int
    BY <1>1 DEF byte
  <2> QED
    BY <2>1
<1>4. \A i \in 1..Len(p) : Configured(w, p)[i] = V(i)
  BY <1>2
<1> HIDE DEF V
<1>5. [i \in 1..Len(p) |-> V(i)] \in Seq(Int) /\ Len([i \in 1..Len(p) |-> V(i)]) = Len(p)
  BY <1>1, <1>3, IsASeq
<1> QED
  BY <1>2, <1>4, <1>5 DEF V

\* Value i of a configuration with n entries is field j of entry k.
LEMMA Grouped ==
    ASSUME NEW w \in {3, 5}, NEW n \in Nat, NEW i \in Nat, i > 1, i <= 1 + w * n
    PROVE  \E k \in 1..n, j \in 1..w :
              i - 1 = (k - 1) * w + j /\ (j = w <=> (i - 1) % w = 0)
<1>1. CASE w = 3
  <2> DEFINE k == (i - 2) \div 3 + 1
             j == i - 1 - (k - 1) * 3
  <2>1. k \in 1..n /\ j \in 1..3 /\ i - 1 = (k - 1) * 3 + j /\ (j = 3 <=> (i - 1) % 3 = 0)
    BY <1>1
  <2> QED
    BY <1>1, <2>1
<1>2. CASE w = 5
  <2> DEFINE k == (i - 2) \div 5 + 1
             j == i - 1 - (k - 1) * 5
  <2>1. k \in 1..n /\ j \in 1..5 /\ i - 1 = (k - 1) * 5 + j /\ (j = 5 <=> (i - 1) % 5 = 0)
    BY <1>2
  <2> QED
    BY <1>2, <2>1
<1> QED
  BY <1>1, <1>2

Size(w, n) == w * n

\* A sequence cut to its own length.
LEMMA Whole ==
    ASSUME NEW S, NEW s \in Seq(S), NEW n, n = Len(s)
    PROVE  SubSeq(s, 1, n) = s
<1>1. n \in Nat /\ s = [k \in 1..n |-> s[k]]
  BY LenProperties
<1> QED
  BY <1>1 DEF SubSeq

\* A broadcast configuration is written as it was read, with "selected" a byte.
LEMMA ConfigurationBack ==
    ASSUME NEW p \in Seq(Int), NEW w \in {3, 5}, NEW n \in Nat, n = p[1],
           NEW size \in Nat, size = Size(w, n), Len(p) = 1 + size
    PROVE  <<n>> \o FlattenSeq(SubSeq(Entries(p, w), 1, n)) = Configured(w, p)
<1> DEFINE e == Entries(p, w)
           s == SubSeq(e, 1, n)
           flat == FlattenSeq(s)
<1>1. DOMAIN p = 1..Len(p) /\ Len(p) \in Nat /\ w \in Nat /\ \A i \in 1..Len(p) : p[i] \in Int
  BY LenProperties, ElementOfSeq
<1>2. Len(p) >= 1 /\ Len(p) >= 1 + w * p[1]
  <2>1. \A i \in Nat : i = 1 + size => i >= 1 /\ i >= 1 + Size(w, n)
    OBVIOUS
  <2> QED
    BY <1>1, <2>1 DEF Size
<1>3. /\ e \in Seq(Seq(Int)) /\ Len(e) = n
      /\ \A k \in 1..n : /\ Len(e[k]) = w
                         /\ \A i \in 1..w : e[k][i] =
                              IF i = w THEN byte(p[1 + (k - 1) * w + i]) ELSE p[1 + (k - 1) * w + i]
  BY ZenonT(30), <1>2, EntriesAre
<1> HIDE DEF e
<1>4. s = e
  BY <1>3, Whole
<1> HIDE DEF s
<1>5. /\ flat \in Seq(Int) /\ Len(flat) = size
      /\ \A k \in 1..n : \A i \in 1..w : flat[Place(w, k, i)] = e[k][i]
  <2>1. FlattenSeq(e) \in Seq(Int)
    BY <1>3, Flattened
  <2>2. \A k \in 1..Len(e) : Len(e[k]) = w
    BY <1>3
  <2>3. Len(FlattenSeq(e)) = w * Len(e)
    BY <1>3, <2>2, FlattenedGroups
  <2>4. LaidOut(FlattenSeq(e), e, w)
    BY <1>3, <2>2, FlattenedGroups
  <2>5. \A k \in 1..n : \A i \in 1..w : FlattenSeq(e)[Place(w, k, i)] = e[k][i]
    BY <1>3, <2>4 DEF LaidOut
  <2>6. w * Len(e) = size
    BY <1>3 DEF Size
  <2> QED
    BY <1>3, <1>4, <2>1, <2>3, <2>5, <2>6
<1> HIDE DEF flat
<1>6. <<n>> \in Seq(Int) /\ Len(<<n>>) = 1 /\ <<n>>[1] = n
  OBVIOUS
<1>7. /\ <<n>> \o flat \in Seq(Int) /\ Len(<<n>> \o flat) = 1 + size
      /\ \A i \in 1..(1 + size) : (<<n>> \o flat)[i] = IF i <= 1 THEN n ELSE flat[i - 1]
  <2>1. \A s1, s2 \in Seq(Int) :
            /\ s1 \o s2 \in Seq(Int) /\ Len(s1 \o s2) = Len(s1) + Len(s2)
            /\ \A i \in 1..(Len(s1) + Len(s2)) : (s1 \o s2)[i] = IF i <= Len(s1) THEN s1[i] ELSE s2[i - Len(s1)]
    BY ConcatProperties
  <2>2. flat \in Seq(Int) /\ Len(flat) = size
    BY <1>5
  <2>3. <<n>> \o flat \in Seq(Int) /\ Len(<<n>> \o flat) = 1 + size
    BY <1>6, <2>1, <2>2
  <2>4. \A i \in 1..(1 + size) : (<<n>> \o flat)[i] = IF i <= 1 THEN <<n>>[i] ELSE flat[i - 1]
    BY SMTT(30), <1>6, <2>1, <2>2
  <2> QED
    BY <1>6, <2>3, <2>4
<1>8. ASSUME NEW i \in 1..Len(p) PROVE (<<n>> \o flat)[i] = Configured(w, p)[i]
  <2>1. CASE i = 1
    <3>1. (<<n>> \o flat)[1] = n
      BY <1>7
    <3>2. Configured(w, p)[1] = p[1]
      BY <2>1, ConfiguredIs
    <3> QED
      BY <2>1, <3>1, <3>2
  <2>2. CASE i # 1
    <3>1. i \in Nat /\ i > 1 /\ i <= 1 + w * n
      <4>1. i \in Nat /\ i > 1 /\ i <= 1 + size
        BY <1>1, <2>2
      <4> QED
        BY <4>1 DEF Size
    <3>2. PICK k \in 1..n, j \in 1..w : i - 1 = (k - 1) * w + j /\ (j = w <=> (i - 1) % w = 0)
      BY <3>1, Grouped
    <3>3. flat[(k - 1) * w + j] = e[k][j]
      BY <1>5 DEF Place
    <3>4. e[k][j] = IF j = w THEN byte(p[1 + (k - 1) * w + j]) ELSE p[1 + (k - 1) * w + j]
      BY <1>3
    <3>5. 1 + (k - 1) * w + j = i
      <4>1. (k - 1) * w \in Int
        BY <1>1
      <4> QED
        BY <1>1, <3>2, <4>1
    <3>6. flat[i - 1] = IF j = w THEN byte(p[i]) ELSE p[i]
      BY <3>2, <3>3, <3>4, <3>5
    <3>7. (<<n>> \o flat)[i] = flat[i - 1]
      BY <1>7, <2>2
    <3>8. Configured(w, p)[i] = IF (i - 1) % w = 0 THEN byte(p[i]) ELSE p[i]
      BY <3>1, ConfiguredIs
    <3> QED
      BY <3>2, <3>6, <3>7, <3>8
  <2> QED
    BY <2>1, <2>2
<1>9. Configured(w, p) \in Seq(Int) /\ Len(Configured(w, p)) = Len(p)
  BY ConfiguredIs
<1>10. <<n>> \o flat = Configured(w, p)
  BY <1>7, <1>8, <1>9, SeqEqual
<1> QED
  BY <1>10 DEF flat, s, e

\* Which function writes what.
LEMMA ResponseIs ==
    ASSUME NEW request \in RequestCodes, NEW response, NEW len
    PROVE  LET r == responseFunction(request, response, len)
           IN  /\ request \in IntsResponses \union StringsResponses => r = Array(response, len)
               /\ request \in StringResponses => r = responseString(response, len)
               /\ request \in SMSResponses \union {"SIM_IO"} => r = Struct(response, len)
               /\ request = "GET_SIM_STATUS" => r = responseSimStatus(response, len)
               /\ request \in {"GET_CURRENT_CALLS", "QUERY_CALL_FORWARD_STATUS", "DATA_CALL_LIST",
                               "GET_NEIGHBORING_CELL_IDS"} => r = ArrayOfStructs(response, len)
               /\ request = "SIGNAL_STRENGTH" => r = responseRilSignalStrength(response, len)
               /\ request = "OEM_HOOK_RAW" => r = responseRaw(response, len)
               /\ request = "GSM_GET_BROADCAST_SMS_CONFIG" => r = responseGsmBrSmsCnf(response, len)
               /\ request = "CDMA_GET_BROADCAST_SMS_CONFIG" => r = responseCdmaBrSmsCnf(response, len)
               /\ request \notin IntsResponses \union StringsResponses \union StringResponses
                       \union SMSResponses \union {"SIM_IO", "GET_SIM_STATUS", "GET_CURRENT_CALLS",
                       "QUERY_CALL_FORWARD_STATUS", "DATA_CALL_LIST", "GET_NEIGHBORING_CELL_IDS",
                       "SIGNAL_STRENGTH", "OEM_HOOK_RAW", "GSM_GET_BROADCAST_SMS_CONFIG",
                       "CDMA_GET_BROADCAST_SMS_CONFIG"} => r = responseVoid(response, len)
  BY DEF responseFunction, IntsResponses, StringsResponses, StringResponses, SMSResponses,
         responseInts, responseStrings, responseSMS, responseSIM_IO, responseCallList,
         responseCallForwards, responseDataCallList, responseCellList

LEMMA AnswerOfIs ==
    ASSUME NEW request \in RequestCodes, NEW response, NEW len, AnswerOf(request, response, len)
    PROVE  /\ request \in IntsResponses \union StringsResponses \union {"SIGNAL_STRENGTH", "OEM_HOOK_RAW"}
                => Elements(Values, response, len)
           /\ request \in StringResponses => response \in Seq(Values) /\ response # <<>>
           /\ request \in {"GET_CURRENT_CALLS", "QUERY_CALL_FORWARD_STATUS", "DATA_CALL_LIST",
                      "GET_NEIGHBORING_CELL_IDS"} => Elements(Seq(Values), response, len)
           /\ request \in SMSResponses \union {"SIM_IO"} => Structure(response)
           /\ request = "GET_SIM_STATUS" => CardStatus(response)
  BY DEF AnswerOf, IntsResponses, StringsResponses, StringResponses, SMSResponses

LEMMA AnswerCarries ==
    ASSUME NEW request \in RequestCodes \ DOMAIN Reading, NEW response, NEW len,
           response # Null, AnswerOf(request, response, len)
    PROVE  Carries(responseFunction(request, response, len))
<1> DEFINE r == responseFunction(request, response, len)
<1>0. request \notin {"GSM_GET_BROADCAST_SMS_CONFIG", "CDMA_GET_BROADCAST_SMS_CONFIG"}
  BY DEF Reading
<1>1. CASE request \in IntsResponses \union StringsResponses
  BY <1>1, ResponseIs, AnswerOfIs, ArrayCarries
<1>2. CASE request \in StringResponses
  BY <1>2, ResponseIs, AnswerOfIs, StringCarries
<1>3. CASE request \in SMSResponses \union {"SIM_IO"}
  BY <1>3, ResponseIs, AnswerOfIs, StructCarries
<1>4. CASE request = "GET_SIM_STATUS"
  BY <1>4, ResponseIs, AnswerOfIs, SimStatusCarries
<1>5. CASE request \in {"GET_CURRENT_CALLS", "QUERY_CALL_FORWARD_STATUS", "DATA_CALL_LIST",
                        "GET_NEIGHBORING_CELL_IDS"}
  BY <1>5, ResponseIs, AnswerOfIs, ArrayOfStructsCarries
<1>6. CASE request = "SIGNAL_STRENGTH"
  BY <1>6, ResponseIs, AnswerOfIs, SignalCarries
<1>7. CASE request = "OEM_HOOK_RAW"
  BY <1>7, ResponseIs, AnswerOfIs, RawCarries
<1>8. CASE request \notin IntsResponses \union StringsResponses \union StringResponses
                       \union SMSResponses \union {"SIM_IO", "GET_SIM_STATUS", "GET_CURRENT_CALLS",
                       "QUERY_CALL_FORWARD_STATUS", "DATA_CALL_LIST", "GET_NEIGHBORING_CELL_IDS",
                       "SIGNAL_STRENGTH", "OEM_HOOK_RAW"}
  <2>1. r = responseVoid(response, len)
    BY <1>0, <1>8, ResponseIs
  <2> QED
    BY <2>1, VoidCarries
<1> QED
  BY <1>1, <1>2, <1>3, <1>4, <1>5, <1>6, <1>7, <1>8

LEMMA UnsolIs ==
    ASSUME NEW event, NEW response, NEW len
    PROVE  LET r == unsolResponseFunction(event, response, len)
           IN  /\ event \in VoidEvents => r = responseVoid(response, len)
               /\ event \in StringEvents => r = responseString(response, len)
               /\ event \in IntsEvents \union {"ON_USSD"} => r = Array(response, len)
               /\ event = "SIGNAL_STRENGTH" => r = responseRilSignalStrength(response, len)
               /\ event = "DATA_CALL_LIST_CHANGED" => r = ArrayOfStructs(response, len)
               /\ event \in {"SUPP_SVC_NOTIFICATION", "CDMA_CALL_WAITING"} => r = Struct(response, len)
               /\ event = "CALL_RING" => r = responseCallRing(response, len)
               /\ event = "RESPONSE_CDMA_NEW_SMS" => r = responseCdmaSms(response, len)
               /\ event = "CDMA_INFO_REC" => r = responseCdmaInformationRecords(response, len)
               /\ event = "OEM_HOOK_RAW" => r = responseRaw(response, len)
  BY DEF unsolResponseFunction, VoidEvents, StringEvents, IntsEvents, responseInts,
         responseStrings, responseDataCallList, responseSsn, responseCdmaCallWaiting

LEMMA EventOfIs ==
    ASSUME NEW event, NEW response, NEW len, EventOf(event, response, len)
    PROVE  /\ event \in IntsEvents \union {"ON_USSD", "SIGNAL_STRENGTH", "OEM_HOOK_RAW"} =>
                  Elements(Values, response, len)
           /\ event \in StringEvents => response \in Seq(Values) /\ response # <<>>
           /\ event = "DATA_CALL_LIST_CHANGED" => Elements(Seq(Values), response, len)
           /\ event \in {"SUPP_SVC_NOTIFICATION", "CALL_RING", "CDMA_CALL_WAITING"} =>
                  Structure(response)
           /\ event = "RESPONSE_CDMA_NEW_SMS" => CdmaMessage(response[1])
  BY DEF EventOf, IntsEvents, StringEvents

LEMMA RingCarries ==
    ASSUME NEW response, NEW len, response # Null => Structure(response)
    PROVE  Carries(responseCallRing(response, len))
<1>1. CASE response = Null \/ len = 0
  <2>1. responseCallRing(response, len) = responseVoid(response, len)
    BY <1>1 DEF responseCallRing
  <2> QED
    BY <2>1, VoidCarries
<1>2. CASE ~(response = Null \/ len = 0)
  <2>1. responseCallRing(response, len) = Struct(response, len)
    BY <1>2 DEF responseCallRing, responseCdmaSignalInfoRecord, Struct
  <2> QED
    BY <2>1, StructCarries
<1> QED
  BY <1>1, <1>2

LEMMA EventCarries ==
    ASSUME NEW event \in UnsolCodes, NEW response, NEW len,
           IF response = Null THEN len = 0 ELSE EventOf(event, response, len),
           unsolResponseFunction(event, response, len).ret = 0
    PROVE  Carries(unsolResponseFunction(event, response, len))
<1>0. (response = Null /\ len = 0) \/ (response # Null /\ EventOf(event, response, len))
  OBVIOUS
<1>1. CASE event \in VoidEvents
  BY <1>1, UnsolIs, VoidCarries
<1>2. CASE event \in StringEvents
  BY <1>0, <1>2, UnsolIs, EventOfIs, StringCarries
<1>3. CASE event \in IntsEvents \union {"ON_USSD"}
  BY <1>0, <1>3, UnsolIs, EventOfIs, ArrayCarries
<1>4. CASE event = "SIGNAL_STRENGTH"
  BY <1>0, <1>4, UnsolIs, EventOfIs, SignalCarries
<1>5. CASE event = "DATA_CALL_LIST_CHANGED"
  BY <1>0, <1>5, UnsolIs, EventOfIs, ArrayOfStructsCarries
<1>6. CASE event \in {"SUPP_SVC_NOTIFICATION", "CDMA_CALL_WAITING"}
  BY <1>0, <1>6, UnsolIs, EventOfIs, StructCarries
<1>7. CASE event = "CALL_RING"
  BY <1>0, <1>7, UnsolIs, EventOfIs, RingCarries
<1>8. CASE event = "RESPONSE_CDMA_NEW_SMS"
  BY <1>0, <1>8, UnsolIs, EventOfIs, SmsCarries
<1>9. CASE event = "CDMA_INFO_REC"
  BY <1>0, <1>9, UnsolIs, RecordsCarry
<1>10. CASE event = "OEM_HOOK_RAW"
  BY <1>0, <1>10, UnsolIs, EventOfIs, RawCarries
<1> QED
  BY <1>1, <1>2, <1>3, <1>4, <1>5, <1>6, <1>7, <1>8, <1>9, <1>10 DEF UnsolCodes

\* A frame is two values and what follows them.
LEMMA FrameOf ==
    ASSUME NEW a \in Values, NEW b, NEW rest \in Seq(Values), NEW frame, frame = <<a, b>> \o rest
    PROVE  /\ Len(frame) = 2 + Len(rest) /\ frame[1] = a /\ frame[2] = b
           /\ \A i \in DOMAIN frame : i # 2 => frame[i] \in Values
           /\ SubSeq(frame, 3, Len(frame)) = rest
<1> DEFINE T == Values \union {b}
<1>1. Len(rest) \in Nat /\ rest \in Seq(T) /\ \A i \in 1..Len(rest) : rest[i] \in Values
  <2>1. Len(rest) \in Nat /\ rest = [i \in 1..Len(rest) |-> rest[i]] /\ \A i \in 1..Len(rest) : rest[i] \in Values
    BY LenProperties, ElementOfSeq
  <2>2. [i \in 1..Len(rest) |-> rest[i]] \in Seq(T)
    BY <2>1, IsASeq
  <2> QED
    BY <2>1, <2>2
<1>2. <<a, b>> \in Seq(T) /\ Len(<<a, b>>) = 2 /\ <<a, b>>[1] = a /\ <<a, b>>[2] = b
  OBVIOUS
<1> HIDE DEF T
<1>3. /\ frame \in Seq(T) /\ Len(frame) = 2 + Len(rest)
      /\ \A i \in 1..(2 + Len(rest)) : frame[i] = IF i <= 2 THEN <<a, b>>[i] ELSE rest[i - 2]
  BY <1>1, <1>2, ConcatProperties
<1>4. frame[1] = a /\ frame[2] = b
  BY <1>1, <1>2, <1>3
<1>5. DOMAIN frame = 1..(2 + Len(rest))
  BY <1>3, LenProperties
<1>6. ASSUME NEW i \in 1..(2 + Len(rest)), i # 2 PROVE frame[i] \in Values
  <2>1. CASE i = 1
    BY <1>4, <2>1
  <2>2. CASE i # 1
    <3>1. frame[i] = rest[i - 2] /\ i - 2 \in 1..Len(rest)
      BY <1>1, <1>3, <1>6, <2>2
    <3> QED
      BY <1>1, <3>1
  <2> QED
    BY <2>1, <2>2
<1>7. SubSeq(frame, 3, Len(frame)) = rest
  <2>1. SubSeq(frame, 3, Len(frame)) = [i \in 1..Len(rest) |-> frame[i + 2]]
    BY <1>1, <1>3 DEF SubSeq
  <2>2. \A i \in 1..Len(rest) : frame[i + 2] = rest[i]
    BY <1>1, <1>3
  <2>3. rest = [i \in 1..Len(rest) |-> rest[i]]
    BY LenProperties
  <2> QED
    BY <2>1, <2>2, <2>3
<1> QED
  BY <1>3, <1>4, <1>5, <1>6, <1>7

\* A configuration that was set reads back as Configured says.
GivenBack(d, w, p) ==
    /\ d.data # Null /\ d.len \in Nat
    /\ <<d.len>> \o FlattenSeq(SubSeq(d.data, 1, d.len)) = Configured(w, p)
    /\ Configured(w, p) \in Seq(Values)
LEMMA ConfigBack ==
    ASSUME NEW request, NEW w,
           \/ request = "GSM_SET_BROADCAST_SMS_CONFIG" /\ w = 5
           \/ request = "CDMA_SET_BROADCAST_SMS_CONFIG" /\ w = 3,
           NEW p, ParcelOf(request, p), NEW d, d = dispatchFunction(request, p), d.calls
    PROVE  GivenBack(d, w, p)
<1>1. p \in Seq(Int)
  BY StringsInIs, AllNumbers
<1>2. Len(p) \in Nat /\ \A i \in 1..Len(p) : p[i] \in Int
  BY <1>1, LenProperties, ElementOfSeq
<1>c. Refused.calls = FALSE /\ \A data, len : Calls(data, len).data = data /\ Calls(data, len).len = len
  BY DEF Refused, Calls
<1>3. w \in {3, 5}
  OBVIOUS
<1>4. ASSUME request = "GSM_SET_BROADCAST_SMS_CONFIG", w = 5
      PROVE  d = Calls(Entries(p, w), p[1]) /\ Len(p) >= 1 /\ Len(p) = 1 + 5 * p[1] /\ p[1] \in Nat
  <2>1. d = dispatchGsmBrSmsCnf(p)
    BY <1>4, DispatchIs
  <2>2. ~(Len(p) < 1) /\ ~(Len(p) < 1 + 5 * p[1]) /\ d = Calls(Entries(p, w), p[1])
    BY <1>4, <1>c, <2>1 DEF dispatchGsmBrSmsCnf, Entries
  <2>3. p # <<>> /\ p[1] \in Int
    BY <1>2, <2>2
  <2>4. Len(p) <= 1 + 5 * p[1]
    BY <1>4, <2>3 DEF ParcelOf
  <2> QED
    BY <1>2, <2>2, <2>3, <2>4
<1>5. ASSUME request = "CDMA_SET_BROADCAST_SMS_CONFIG", w = 3
      PROVE  d = Calls(Entries(p, w), p[1]) /\ Len(p) >= 1 /\ Len(p) = 1 + 3 * p[1] /\ p[1] \in Nat
  <2>1. d = dispatchCdmaBrSmsCnf(p)
    BY <1>5, DispatchIs
  <2>2. ~(Len(p) < 1) /\ ~(Len(p) < 1 + 3 * p[1]) /\ d = Calls(Entries(p, w), p[1])
    BY <1>5, <1>c, <2>1 DEF dispatchCdmaBrSmsCnf, Entries
  <2>3. p # <<>> /\ p[1] \in Int
    BY <1>2, <2>2
  <2>4. Len(p) <= 1 + 3 * p[1]
    BY <1>5, <2>3 DEF ParcelOf
  <2> QED
    BY <1>2, <2>2, <2>3, <2>4
<1> DEFINE n == p[1]
           size == Size(w, n)
<1>6. d = Calls(Entries(p, w), n) /\ Len(p) >= 1 /\ n \in Nat
  BY <1>4, <1>5
<1>7. size \in Nat /\ Len(p) = 1 + size /\ Len(p) >= 1 + w * n
  BY <1>2, <1>4, <1>5 DEF Size
<1>8. Entries(p, w) \in Seq(Seq(Int))
  BY <1>1, <1>3, <1>6, <1>7, EntriesAre
<1>9. <<n>> \o FlattenSeq(SubSeq(Entries(p, w), 1, n)) = Configured(w, p)
  <2>1. n = p[1] /\ size = Size(w, n)
    OBVIOUS
  <2> HIDE DEF n, size
  <2> QED
    BY <1>1, <1>3, <1>6, <1>7, <2>1, ConfigurationBack
<1>10. Configured(w, p) \in Seq(Values)
  BY <1>1, <1>3, ConfiguredIs, ValueSeqs
<1>11. d.data = Entries(p, w) /\ d.len = n
  BY <1>6, <1>c
<1>12. d.data # Null
  <2>1. Entries(p, w) \in Seq(Seq(Values))
    <3>1. Len(Entries(p, w)) \in Nat
          /\ Entries(p, w) = [i \in 1..Len(Entries(p, w)) |-> Entries(p, w)[i]]
          /\ \A i \in 1..Len(Entries(p, w)) : Entries(p, w)[i] \in Seq(Values)
      BY <1>8, LenProperties, ElementOfSeq, ValueSeqs
    <3>2. [i \in 1..Len(Entries(p, w)) |-> Entries(p, w)[i]] \in Seq(Seq(Values))
      BY <3>1, IsASeq
    <3> QED
      BY <3>1, <3>2
  <2> QED
    BY <1>11, <2>1, MarshalAssumption
<1> QED
  BY <1>6, <1>9, <1>10, <1>11, <1>12 DEF GivenBack

\* What lies in a parcel one after the other makes up the parcel.
LEMMA Joined ==
    ASSUME NEW p \in Seq(Int), NEW i \in Nat, NEW j \in Nat, i <= j, j <= Len(p)
    PROVE  SubSeq(p, 1, i) \o SubSeq(p, i + 1, j) = SubSeq(p, 1, j)
<1>1. DOMAIN p = 1..Len(p) /\ Len(p) \in Nat /\ \A k \in 1..Len(p) : p[k] \in Int
  BY LenProperties, ElementOfSeq
<1> DEFINE s == SubSeq(p, 1, i)
           t == SubSeq(p, i + 1, j)
           u == SubSeq(p, 1, j)
<1>2. s \in Seq(Int) /\ Len(s) = i /\ \A k \in 1..i : s[k] = p[k]
  BY <1>1 DEF SubSeq
<1>3. t \in Seq(Int) /\ Len(t) = j - i /\ \A k \in 1..(j - i) : t[k] = p[i + k]
  BY <1>1 DEF SubSeq
<1>4. u \in Seq(Int) /\ Len(u) = j /\ \A k \in 1..j : u[k] = p[k]
  BY <1>1 DEF SubSeq
<1> HIDE DEF s, t, u
<1>a. /\ s \o t \in Seq(Int) /\ Len(s \o t) = Len(s) + Len(t)
      /\ \A k \in 1..(Len(s) + Len(t)) : (s \o t)[k] = IF k <= Len(s) THEN s[k] ELSE t[k - Len(s)]
  <2>1. \A s1, s2 \in Seq(Int) :
            /\ s1 \o s2 \in Seq(Int) /\ Len(s1 \o s2) = Len(s1) + Len(s2)
            /\ \A k \in 1..(Len(s1) + Len(s2)) : (s1 \o s2)[k] = IF k <= Len(s1) THEN s1[k] ELSE s2[k - Len(s1)]
    BY ConcatProperties
  <2>2. s \in Seq(Int) /\ t \in Seq(Int)
    BY <1>2, <1>3
  <2> QED
    BY <2>1, <2>2
<1> DEFINE st == s \o t
<1>b. i + (j - i) = j
  OBVIOUS
<1>5. /\ st \in Seq(Int) /\ Len(st) = j
      /\ \A k \in 1..j : st[k] = IF k <= i THEN s[k] ELSE t[k - i]
  BY <1>2, <1>3, <1>a, <1>b
<1> HIDE DEF st
<1>6. ASSUME NEW k \in 1..j PROVE st[k] = u[k]
  <2>1. CASE k <= i
    <3>1. k \in 1..i /\ st[k] = s[k]
      BY <1>5, <2>1
    <3> QED
      BY <1>2, <1>4, <3>1
  <2>2. CASE ~(k <= i)
    <3>1. k - i \in 1..(j - i) /\ i + (k - i) = k
      BY <2>2
    <3>2. st[k] = t[k - i]
      BY <1>5, <2>2
    <3>3. t[k - i] = p[k]
      BY <1>3, <3>1
    <3> QED
      BY <1>4, <3>2, <3>3
  <2> QED
    BY <2>1, <2>2
<1>7. st = u
  BY <1>4, <1>5, <1>6, SeqEqual
<1> QED
  BY <1>7 DEF st, s, t, u

LEMMA Alone ==
    ASSUME NEW p \in Seq(Int), NEW i \in 1..Len(p)
    PROVE  SubSeq(p, i, i) = <<p[i]>>
<1>1. Len(p) \in Nat
  BY LenProperties
<1>2. SubSeq(p, i, i) = [k \in 1..1 |-> p[i]]
  BY <1>1 DEF SubSeq
<1>3. <<p[i]>> = [k \in 1..1 |-> p[i]]
  OBVIOUS
<1> QED
  BY <1>2, <1>3

\* The run of a parcel between two places, as it is read and as it is kept.
LEMMA ReadBack ==
    ASSUME NEW p \in Seq(Int), NEW i \in Nat, NEW j \in Nat, i <= j, j <= Len(p)
    PROVE  /\ ReadMany(p, i, j - i) = SubSeq(p, i + 1, j)
           /\ SubSeq(ReadMany(p, i, j - i), 1, j - i) = SubSeq(p, i + 1, j)
<1> DEFINE n == j - i
<1>1. n \in Nat /\ n \in Int /\ i + n = j /\ i + n <= Len(p)
  OBVIOUS
<1> HIDE DEF n
<1>2. /\ n \in Nat => ReadMany(p, i, n) \in Seq(Int) /\ Len(ReadMany(p, i, n)) = n
      /\ n \in Nat => ReadMany(p, i, n) = SubSeq(p, i + 1, i + n)
  BY <1>1, ReadManyIs
<1> DEFINE run == ReadMany(p, i, n)
<1>3. run \in Seq(Int) /\ n = Len(run) /\ run = SubSeq(p, i + 1, j)
  BY <1>1, <1>2
<1> HIDE DEF run
<1>4. SubSeq(run, 1, n) = run
  BY SMTT(30), <1>3, Whole
<1> QED
  BY <1>3, <1>4 DEF run, n

\* A message is written as it was read.
LEMMA MessageBack ==
    ASSUME NEW p \in Seq(Int), Len(p) = Trusted(p).end, NEW m, m = Trusted(p).message,
           NEW response, NEW len, response # Null, len = ElementSize, response[1] = m
    PROVE  responseCdmaSms(response, len) = Writes(p)
<1>1. PICK a, b, c \in Nat : PartsOf(p, a, b, c) /\ m = MessageParts(p, a, b, c) /\ Trusted(p).end = c
  <2>1. Trusted(p).end <= Len(p)
    BY LenProperties, MessageRead
  <2> QED
    BY <2>1, MessageRead
<1>2. /\ 8 <= a /\ a + 3 <= b /\ b + 1 <= c /\ c = Len(p)
      /\ a = 8 + Kept(p[8], AddressMax) /\ b = (a + 3) + Kept(p[a + 3], SubaddressMax)
      /\ c = (b + 1) + Kept(p[b + 1], BearerMax)
      /\ p[8] \in Int /\ p[a + 3] \in Int /\ p[b + 1] \in Int
  BY <1>1 DEF PartsOf
<1>f. FieldsAre(p, a, b, c, m)
  BY <1>1, MessageIs
<1>3. /\ m.head = ReadMany(p, 0, 7) /\ m.n = p[8] /\ m.digits = ReadMany(p, 8, a - 8)
      /\ m.sub = ReadMany(p, a, 2) /\ m.m = p[a + 3] /\ m.subDigits = ReadMany(p, a + 3, b - a - 3)
      /\ m.bearerLen = p[b + 1] /\ m.bearer = ReadMany(p, b + 1, c - b - 1)
      /\ Kept(m.n, AddressMax) = a - 8 /\ Kept(m.m, SubaddressMax) = b - a - 3
      /\ Kept(m.bearerLen, BearerMax) = c - b - 1
  BY <1>f DEF FieldsAre
<1> DEFINE digits == SubSeq(m.digits, 1, Kept(m.n, AddressMax))
           subDigits == SubSeq(m.subDigits, 1, Kept(m.m, SubaddressMax))
           bearer == SubSeq(m.bearer, 1, Kept(m.bearerLen, BearerMax))
<1>4. responseCdmaSms(response, len) =
        Writes(m.head \o <<m.n>> \o digits \o m.sub \o <<m.m>> \o subDigits \o <<m.bearerLen>> \o bearer)
  BY DEF responseCdmaSms
<1>o. Len(p) \in Nat /\ 8 <= a /\ a + 3 <= b /\ b + 1 <= c /\ c = Len(p)
  BY <1>2, LenProperties
<1>5. /\ a - 8 \in Nat /\ b - a - 3 \in Nat /\ c - b - 1 \in Nat /\ a + 3 \in Nat /\ b + 1 \in Nat
      /\ 7 <= Len(p) /\ a <= Len(p) /\ a + 2 <= Len(p) /\ b <= Len(p) /\ c <= Len(p)
      /\ 8 \in 1..Len(p) /\ a + 3 \in 1..Len(p) /\ b + 1 \in 1..Len(p)
  <2>1. a - 8 \in Nat /\ a + 3 \in Nat /\ b + 1 \in Nat
    BY <1>o
  <2>2. b - a - 3 \in Nat /\ c - b - 1 \in Nat
    BY <1>o
  <2>3. 7 <= Len(p) /\ a <= Len(p) /\ a + 2 <= Len(p) /\ b <= Len(p) /\ c <= Len(p)
    BY <1>o
  <2>4. 8 \in 1..Len(p) /\ a + 3 \in 1..Len(p) /\ b + 1 \in 1..Len(p)
    BY <1>o
  <2> QED
    BY <2>1, <2>2, <2>3, <2>4
<1>6. \A i, j \in Nat : i <= j /\ j <= Len(p) =>
        /\ ReadMany(p, i, j - i) = SubSeq(p, i + 1, j)
        /\ SubSeq(ReadMany(p, i, j - i), 1, j - i) = SubSeq(p, i + 1, j)
  BY ReadBack
<1>s. b - a - 3 = b - (a + 3) /\ c - b - 1 = c - (b + 1) /\ 2 = (a + 2) - a
  BY <1>o
<1>7. m.head = SubSeq(p, 1, 7)
  <2>1. 0 \in Nat /\ 7 \in Nat /\ 0 <= 7 /\ 7 <= Len(p) /\ 7 - 0 = 7 /\ 0 + 1 = 1
    BY <1>5
  <2>2. ReadMany(p, 0, 7 - 0) = SubSeq(p, 0 + 1, 7)
    BY ONLY <1>6, <2>1
  <2> QED
    BY <1>3, <2>1, <2>2
<1>8. digits = SubSeq(p, 8 + 1, a)
  <2>1. 8 \in Nat /\ a \in Nat /\ 8 <= a /\ a <= Len(p)
    BY <1>o, <1>5
  <2>2. SubSeq(ReadMany(p, 8, a - 8), 1, a - 8) = SubSeq(p, 8 + 1, a)
    BY ONLY <1>6, <2>1
  <2> QED
    BY <1>3, <2>2
<1>9. m.sub = SubSeq(p, a + 1, a + 2)
  <2>a. a + 2 \in Nat /\ a <= a + 2 /\ a + 2 <= Len(p)
    <3>1. a + 2 \in Nat /\ a <= a + 2
      OBVIOUS
    <3>2. a + 2 <= Len(p)
      BY <1>5
    <3> QED
      BY <3>1, <3>2
  <2>1. ReadMany(p, a, (a + 2) - a) = SubSeq(p, a + 1, a + 2)
    BY <1>6, <2>a
  <2> QED
    BY <1>3, <1>s, <2>1
<1>10. subDigits = SubSeq(p, a + 3 + 1, b)
  <2>1. SubSeq(ReadMany(p, a + 3, b - (a + 3)), 1, b - (a + 3)) = SubSeq(p, a + 3 + 1, b)
    BY <1>o, <1>5, <1>6
  <2> QED
    BY <1>3, <1>s, <2>1
<1>11. bearer = SubSeq(p, b + 1 + 1, c)
  <2>1. SubSeq(ReadMany(p, b + 1, c - (b + 1)), 1, c - (b + 1)) = SubSeq(p, b + 1 + 1, c)
    BY <1>o, <1>5, <1>6
  <2> QED
    BY <1>3, <1>s, <2>1
<1>12. <<m.n>> = SubSeq(p, 8, 8) /\ <<m.m>> = SubSeq(p, a + 3, a + 3) /\ <<m.bearerLen>> = SubSeq(p, b + 1, b + 1)
  <2>1. SubSeq(p, 8, 8) = <<p[8]>>
    BY <1>5, Alone
  <2>2. SubSeq(p, a + 3, a + 3) = <<p[a + 3]>>
    BY <1>5, Alone
  <2>3. SubSeq(p, b + 1, b + 1) = <<p[b + 1]>>
    BY <1>5, Alone
  <2> QED
    BY <1>3, <2>1, <2>2, <2>3
<1> HIDE DEF digits, subDigits, bearer
<1>j. \A i, j \in Nat : i <= j /\ j <= Len(p) =>
            SubSeq(p, 1, i) \o SubSeq(p, i + 1, j) = SubSeq(p, 1, j)
  BY Joined
<1>13. m.head \o <<m.n>> = SubSeq(p, 1, 8)
  <2>1. SubSeq(p, 1, 7) \o SubSeq(p, 7 + 1, 8) = SubSeq(p, 1, 8)
    BY <1>o, <1>j
  <2>2. 7 + 1 = 8
    OBVIOUS
  <2> QED
    BY <1>7, <1>12, <2>1, <2>2
<1>14. m.head \o <<m.n>> \o digits = SubSeq(p, 1, a)
  <2>1. SubSeq(p, 1, 8) \o SubSeq(p, 8 + 1, a) = SubSeq(p, 1, a)
    BY <1>o, <1>j
  <2> QED
    BY <1>8, <1>13, <2>1
<1>15. m.head \o <<m.n>> \o digits \o m.sub = SubSeq(p, 1, a + 2)
  <2>1. SubSeq(p, 1, a) \o SubSeq(p, a + 1, a + 2) = SubSeq(p, 1, a + 2)
    BY <1>o, <1>j
  <2> QED
    BY <1>9, <1>14, <2>1
<1>16. m.head \o <<m.n>> \o digits \o m.sub \o <<m.m>> = SubSeq(p, 1, a + 3)
  <2>1. SubSeq(p, 1, a + 2) \o SubSeq(p, a + 2 + 1, a + 3) = SubSeq(p, 1, a + 3)
    BY <1>o, <1>j
  <2>2. a + 2 + 1 = a + 3
    OBVIOUS
  <2> QED
    BY <1>12, <1>15, <2>1, <2>2
<1>17. m.head \o <<m.n>> \o digits \o m.sub \o <<m.m>> \o subDigits = SubSeq(p, 1, b)
  <2>1. SubSeq(p, 1, a + 3) \o SubSeq(p, a + 3 + 1, b) = SubSeq(p, 1, b)
    BY SMTT(30), <1>o, <1>j
  <2> QED
    BY <1>10, <1>16, <2>1
<1>18. m.head \o <<m.n>> \o digits \o m.sub \o <<m.m>> \o subDigits \o <<m.bearerLen>> = SubSeq(p, 1, b + 1)
  <2>1. SubSeq(p, 1, b) \o SubSeq(p, b + 1, b + 1) = SubSeq(p, 1, b + 1)
    BY <1>o, <1>j
  <2> QED
    BY <1>12, <1>17, <2>1
<1>19. m.head \o <<m.n>> \o digits \o m.sub \o <<m.m>> \o subDigits \o <<m.bearerLen>> \o bearer = SubSeq(p, 1, c)
  <2>1. SubSeq(p, 1, b + 1) \o SubSeq(p, b + 1 + 1, c) = SubSeq(p, 1, c)
    BY SMTT(30), <1>o, <1>j
  <2> QED
    BY <1>11, <1>18, <2>1
<1>20. SubSeq(p, 1, c) = p
  BY <1>1, Whole
<1> QED
  BY <1>4, <1>19, <1>20

-----------------------------------------------------------------------------
(* The invariant: what is pending and what is stored was read from a parcel *)
(* the phone may send.                                                      *)

\* A dispatch function refuses the parcel or calls the library.
RefusesOrCalls(d) == d = Refused \/ \E data, len : d = Calls(data, len)

LEMMA DispatchCalls ==
    ASSUME NEW request \in RequestCodes, NEW p
    PROVE  RefusesOrCalls(dispatchFunction(request, p))
<1> DEFINE d == dispatchFunction(request, p)
<1>1. CASE request \in VoidRequests
  BY <1>1, DispatchIs DEF dispatchVoid, RefusesOrCalls
<1>2. CASE request \in StringRequests
  BY <1>2, DispatchIs DEF dispatchString, RefusesOrCalls
<1>3. CASE request \in StringsRequests
  BY <1>3, DispatchIs DEF dispatchStrings, RefusesOrCalls
<1>4. CASE request \in IntsRequests
  BY <1>4, DispatchIs DEF dispatchInts, RefusesOrCalls
<1>5. CASE request \in CallForwardRequests
  BY <1>5, DispatchIs DEF dispatchCallForward, RefusesOrCalls
<1>6. CASE request = "DIAL"
  BY <1>6, DispatchIs DEF dispatchDial, RefusesOrCalls
<1>7. CASE request = "SIM_IO"
  BY <1>7, DispatchIs DEF dispatchSIM_IO, RefusesOrCalls
<1>8. CASE request = "WRITE_SMS_TO_SIM"
  BY <1>8, DispatchIs DEF dispatchSmsWrite, RefusesOrCalls
<1>9. CASE request = "OEM_HOOK_RAW"
  BY <1>9, DispatchIs DEF dispatchRaw, RefusesOrCalls
<1>10. CASE request = "CDMA_SEND_SMS"
  BY <1>10, DispatchIs, DispatchSms DEF RefusesOrCalls
<1>11. CASE request = "CDMA_SMS_ACKNOWLEDGE"
  BY <1>11, DispatchIs DEF dispatchCdmaSmsAck, RefusesOrCalls
<1>12. CASE request = "GSM_SET_BROADCAST_SMS_CONFIG"
  BY ZenonT(30), <1>12, DispatchIs DEF dispatchGsmBrSmsCnf, RefusesOrCalls
<1>13. CASE request = "CDMA_SET_BROADCAST_SMS_CONFIG"
  BY ZenonT(30), <1>13, DispatchIs DEF dispatchCdmaBrSmsCnf, RefusesOrCalls
<1>14. CASE request = "CDMA_WRITE_SMS_TO_RUIM"
  <2>1. d = dispatchRilCdmaSmsWriteArgs(p)
    BY <1>14, DispatchIs
  <2> QED
    BY Zenon, <2>1 DEF dispatchRilCdmaSmsWriteArgs, RefusesOrCalls
<1> QED
  BY <1>1, <1>2, <1>3, <1>4, <1>5, <1>6, <1>7, <1>8, <1>9, <1>10, <1>11, <1>12, <1>13, <1>14
     DEF RequestCodes

\* The pending call is the dispatch of the pending command.
Pending ==
    /\ call.calls \in BOOLEAN
    /\ call.calls => /\ command.request \in RequestCodes
                     /\ command.parcel \in Parcels[command.request]
                     /\ call = dispatchFunction(command.request, command.parcel)
    /\ ~call.calls => command = Idle

\* What is stored came with a request that writes it.
StoredBy(request, s) ==
    LET d == dispatchFunction(request, s.parcel)
    IN  s.parcel \in Parcels[request] /\ d.calls /\ s.data = d.data /\ s.len = d.len
Stored ==
    \/ store = NothingStored
    \/ \E request \in DOMAIN Writing : store.kind = Writing[request] /\ StoredBy(request, store)

ExchangeInv == ExchangeTypeOK /\ ErrorCarriesNoPayload /\ Pending /\ Stored

\* A frame is well formed by itself.
FrameOK(frame) ==
    /\ \A i \in DOMAIN frame : i # 2 => frame[i] \in Values
    /\ (Len(frame) > 1 /\ frame[1] = RESPONSE_SOLICITED /\ frame[2] = RIL_ERRNO_INVALID_RESPONSE)
          => Len(frame) = 2

LEMMA InvParts ==
    ASSUME Pending, Stored, FrameOK(sent)
    PROVE  ExchangeInv
<1>1. command.request \in RequestCodes \union {"none"}
  BY DEF Pending, Idle
<1>2. store.kind \in {"none", "gsm", "cdma", "sms"}
  BY DEF Stored, NothingStored, Writing
<1> QED
  BY <1>1, <1>2 DEF ExchangeInv, ExchangeTypeOK, Pending, FrameOK, ErrorCarriesNoPayload

LEMMA InvPartsNext ==
    ASSUME Pending', Stored', FrameOK(sent')
    PROVE  ExchangeInv'
<1>1. command'.request \in RequestCodes \union {"none"}
  BY DEF Pending, Idle
<1>2. store'.kind \in {"none", "gsm", "cdma", "sms"}
  BY DEF Stored, NothingStored, Writing
<1> QED
  BY <1>1, <1>2 DEF ExchangeInv, ExchangeTypeOK, Pending, FrameOK, ErrorCarriesNoPayload

LEMMA EmptyFrame == FrameOK(<<>>)
  BY DEF FrameOK

LEMMA InitExchange == ExchangeInit => ExchangeInv
<1> SUFFICES ASSUME ExchangeInit PROVE ExchangeInv
  OBVIOUS
<1>1. Pending
  BY DEF ExchangeInit, Pending, Refused
<1>2. Stored
  BY DEF ExchangeInit, Stored
<1>3. FrameOK(sent)
  BY EmptyFrame DEF ExchangeInit
<1> QED
  BY <1>1, <1>2, <1>3, InvParts

\* An answer with a payload carries it whole, or an error alone.
LEMMA AnswerFrameIs ==
    ASSUME NEW request, NEW e \in Nat, NEW response, NEW len,
           response # Null => Carries(responseFunction(request, response, len))
    PROVE  FrameOK(AnswerFrame(request, e, response, len))
<1> DEFINE frame == AnswerFrame(request, e, response, len)
           r == responseFunction(request, response, len)
<1>1. RESPONSE_SOLICITED \in Values /\ <<>> \in Seq(Values)
  BY ValueSeqs DEF RESPONSE_SOLICITED
<1>2. CASE response = Null
  <2>1. frame = <<RESPONSE_SOLICITED, e>> /\ frame = <<RESPONSE_SOLICITED, e>> \o <<>>
    BY <1>2 DEF AnswerFrame
  <2> HIDE DEF frame
  <2>2. Len(frame) = 2 /\ \A i \in DOMAIN frame : i # 2 => frame[i] \in Values
    <3>1. Len(<<>>) = 0
      OBVIOUS
    <3> QED
      BY <1>1, <2>1, <3>1, FrameOf
  <2> QED
    BY <2>2 DEF FrameOK, frame
<1>3. CASE response # Null /\ r = INVALID_RESPONSE
  <2>1. frame = <<RESPONSE_SOLICITED, -1>> \o <<>>
    BY <1>3 DEF AnswerFrame, INVALID_RESPONSE, RIL_ERRNO_INVALID_RESPONSE
  <2> HIDE DEF frame
  <2>2. Len(frame) = 2 /\ \A i \in DOMAIN frame : i # 2 => frame[i] \in Values
    <3>1. Len(<<>>) = 0
      OBVIOUS
    <3> QED
      BY <1>1, <2>1, <3>1, FrameOf
  <2> QED
    BY <2>2 DEF FrameOK, frame
<1>4. CASE response # Null /\ r # INVALID_RESPONSE
  <2>1. PICK out \in Seq(Values) : r = Writes(out)
    BY <1>4 DEF Carries
  <2>2. frame = <<RESPONSE_SOLICITED, e>> \o out
    BY <1>4, <2>1 DEF AnswerFrame, Writes
  <2> HIDE DEF frame
  <2>3. frame[2] = e /\ \A i \in DOMAIN frame : i # 2 => frame[i] \in Values
    BY <1>1, <2>2, FrameOf
  <2>4. e # RIL_ERRNO_INVALID_RESPONSE
    BY DEF RIL_ERRNO_INVALID_RESPONSE
  <2> QED
    BY <2>3, <2>4 DEF FrameOK, frame
<1> QED
  BY <1>2, <1>3, <1>4

LEMMA EventFrameIs ==
    ASSUME NEW event \in UnsolCodes, NEW r, r.ret = 0, Carries(r), NEW frame,
           frame = <<RESPONSE_UNSOLICITED, event>> \o r.out \o More(event)
    PROVE  FrameOK(frame)
<1>1. PICK out \in Seq(Values) : r.out = out
  BY DEF Carries, INVALID_RESPONSE, RIL_ERRNO_INVALID_RESPONSE, Writes
<1>2. More(event) \in Seq(Values) /\ RESPONSE_UNSOLICITED \in Values
  BY ValueSeqs DEF More, RESPONSE_UNSOLICITED
<1>3. out \o More(event) \in Seq(Values)
  BY <1>2, ValueSeqs
<1>4. frame = <<RESPONSE_UNSOLICITED, event>> \o (out \o More(event))
  <2> DEFINE T == Values \union {event}
  <2>1. Seq(Values) \subseteq Seq(T)
    <3>1. ASSUME NEW s \in Seq(Values) PROVE s \in Seq(T)
      <4>1. Len(s) \in Nat /\ s = [i \in 1..Len(s) |-> s[i]] /\ \A i \in 1..Len(s) : s[i] \in T
        BY LenProperties, ElementOfSeq
      <4> HIDE DEF T
      <4>2. [i \in 1..Len(s) |-> s[i]] \in Seq(T)
        BY <4>1, IsASeq
      <4> QED
        BY <4>1, <4>2
    <3> QED
      BY <3>1
  <2>2. <<RESPONSE_UNSOLICITED, event>> \in Seq(T)
    BY <1>2
  <2> HIDE DEF T
  <2>3. \A s, t, u \in Seq(T) : (s \o t) \o u = s \o (t \o u)
    <3>1. ASSUME NEW s \in Seq(T), NEW t \in Seq(T), NEW u \in Seq(T)
          PROVE  (s \o t) \o u = s \o (t \o u)
      BY SMTT(30), ConcatAssociative
    <3> QED
      BY <3>1
  <2> QED
    BY <1>1, <1>2, <2>1, <2>2, <2>3
<1>5. frame[1] = RESPONSE_UNSOLICITED /\ \A i \in DOMAIN frame : i # 2 => frame[i] \in Values
  <2> DEFINE rest == out \o More(event)
  <2>1. rest \in Seq(Values) /\ frame = <<RESPONSE_UNSOLICITED, event>> \o rest
    BY <1>3, <1>4
  <2>2. ASSUME NEW out1 \in Seq(Values), NEW frame1, frame1 = <<RESPONSE_UNSOLICITED, event>> \o out1
        PROVE  frame1[1] = RESPONSE_UNSOLICITED /\ \A i \in DOMAIN frame1 : i # 2 => frame1[i] \in Values
    BY ONLY <1>2, <2>2, FrameOf
  <2> HIDE DEF rest
  <2> QED
    BY <2>1, <2>2
<1> QED
  BY <1>5 DEF FrameOK, RESPONSE_SOLICITED, RESPONSE_UNSOLICITED

LEMMA SendStep == ASSUME ExchangeInv, Send PROVE ExchangeInv'
<1>1. PICK request \in RequestCodes : \E parcel \in Parcels[request] : processCommandBuffer(request, parcel)
  BY DEF Send
<1>2. PICK parcel \in Parcels[request] : processCommandBuffer(request, parcel)
  BY <1>1
<1> DEFINE d == dispatchFunction(request, parcel)
<1>3. /\ call' = d /\ sent' = <<>>
      /\ command' = IF call'.calls THEN [request |-> request, parcel |-> parcel] ELSE Idle
      /\ store' = IF call'.calls /\ request \in DOMAIN Writing
                  THEN [kind |-> Writing[request], data |-> call'.data, len |-> call'.len,
                        parcel |-> parcel]
                  ELSE store
  BY <1>2 DEF processCommandBuffer
<1>4. d.calls \in BOOLEAN
  <2>1. RefusesOrCalls(d)
    BY DispatchCalls
  <2>2. Refused.calls = FALSE /\ \A data, len : Calls(data, len).calls = TRUE
    BY DEF Refused, Calls
  <2> HIDE DEF d
  <2> QED
    BY <2>1, <2>2 DEF RefusesOrCalls
<1>5. Pending'
  <2>1. CASE d.calls
    <3>1. command' = [request |-> request, parcel |-> parcel]
      BY <1>3, <2>1
    <3>2. command'.request = request /\ command'.parcel = parcel
      BY <3>1
    <3> HIDE DEF d
    <3> QED
      BY <1>3, <1>4, <2>1, <3>2 DEF Pending, d
  <2>2. CASE ~d.calls
    <3> HIDE DEF d
    <3> QED
      BY <1>3, <1>4, <2>2 DEF Pending
  <2> QED
    BY <1>4, <2>1, <2>2
<1>6. Stored'
  <2>1. CASE d.calls /\ request \in DOMAIN Writing
    <3>1. /\ store'.kind = Writing[request] /\ store'.data = d.data /\ store'.len = d.len
          /\ store'.parcel = parcel
      BY <1>3, <2>1
    <3>2. StoredBy(request, store')
      BY <2>1, <3>1 DEF StoredBy
    <3> QED
      BY <2>1, <3>1, <3>2 DEF Stored
  <2>2. CASE ~(d.calls /\ request \in DOMAIN Writing)
    <3>1. store' = store
      BY <1>3, <2>2
    <3> QED
      BY <3>1 DEF ExchangeInv, Stored
  <2> QED
    BY <2>1, <2>2
<1>7. FrameOK(sent')
  BY <1>3, EmptyFrame
<1> QED
  BY <1>5, <1>6, <1>7, InvPartsNext

LEMMA ExchangeCompletes ==
    ASSUME ExchangeInv, NEW e \in Nat, NEW response, NEW len,
           RIL_onRequestComplete(e, response, len),
           response # Null => Carries(responseFunction(command.request, response, len))
    PROVE  ExchangeInv'
<1>1. sent' = AnswerFrame(command.request, e, response, len) /\ call' = Refused /\ command' = Idle
      /\ store' = store
  BY DEF RIL_onRequestComplete
<1>2. Pending'
  BY <1>1 DEF Pending, Refused
<1>3. Stored'
  BY <1>1 DEF ExchangeInv, Stored
<1>4. FrameOK(sent')
  BY <1>1, AnswerFrameIs
<1> QED
  BY <1>2, <1>3, <1>4, InvPartsNext

LEMMA EventStep ==
    ASSUME ExchangeInv, NEW event \in UnsolCodes, NEW response, NEW len,
           RIL_onUnsolicitedResponse(event, response, len),
           Carries(unsolResponseFunction(event, response, len))
    PROVE  ExchangeInv'
<1> DEFINE r == unsolResponseFunction(event, response, len)
<1>1. r.ret = 0 /\ sent' = <<RESPONSE_UNSOLICITED, event>> \o r.out \o More(event)
      /\ UNCHANGED <<command, call, store>>
  BY DEF RIL_onUnsolicitedResponse
<1>2. Pending' /\ Stored'
  BY <1>1 DEF ExchangeInv, Pending, Stored
<1>3. FrameOK(sent')
  <2>1. Carries(r)
    OBVIOUS
  <2> HIDE DEF r
  <2> QED
    BY <1>1, <2>1, EventFrameIs
<1> QED
  BY <1>2, <1>3, InvPartsNext

\* What the library gives back: the parts of CompleteFromStore.
LEMMA StoredConfig ==
    ASSUME ExchangeInv, command.request \in DOMAIN Reading, store.kind = Reading[command.request]
    PROVE  LET w == IF store.kind = "gsm" THEN 5 ELSE 3
               r == responseFunction(command.request, store.data, ElementSize * store.len)
           IN  /\ store.data # Null /\ r = Writes(Configured(w, store.parcel))
               /\ Configured(w, store.parcel) \in Seq(Values)
<1> DEFINE w == IF store.kind = "gsm" THEN 5 ELSE 3
           r == responseFunction(command.request, store.data, ElementSize * store.len)
<1>1. store # NothingStored
  BY DEF Reading, NothingStored
<1>2. PICK request \in DOMAIN Writing : store.kind = Writing[request] /\ StoredBy(request, store)
  BY <1>1 DEF ExchangeInv, Stored
<1>3. \/ /\ command.request = "GSM_GET_BROADCAST_SMS_CONFIG" /\ store.kind = "gsm"
         /\ request = "GSM_SET_BROADCAST_SMS_CONFIG" /\ w = 5
      \/ /\ command.request = "CDMA_GET_BROADCAST_SMS_CONFIG" /\ store.kind = "cdma"
         /\ request = "CDMA_SET_BROADCAST_SMS_CONFIG" /\ w = 3
  BY <1>2 DEF Reading, Writing
<1>4. request \in RequestCodes /\ command.request \in RequestCodes
  BY <1>3 DEF RequestCodes, VoidRequests
<1> DEFINE p == store.parcel
           d == dispatchFunction(request, p)
<1>5. p \in Parcels[request] /\ d.calls /\ store.data = d.data /\ store.len = d.len
  BY <1>2 DEF StoredBy
<1>6. ParcelOf(request, p)
  BY <1>4, <1>5, ExchangeAssumption
<1>7. GivenBack(d, w, p)
  <2>1. d = dispatchFunction(request, p) /\ d.calls
    BY <1>5
  <2>2. \/ request = "GSM_SET_BROADCAST_SMS_CONFIG" /\ w = 5
        \/ request = "CDMA_SET_BROADCAST_SMS_CONFIG" /\ w = 3
    BY <1>3
  <2> HIDE DEF d, w, p
  <2> QED
    BY <1>6, <2>1, <2>2, ConfigBack
<1>8. (ElementSize * store.len) \div ElementSize = store.len
  BY <1>5, <1>7 DEF ElementSize, GivenBack
<1>9. r = Writes(<<store.len>> \o FlattenSeq(SubSeq(store.data, 1, store.len)))
  BY <1>3, <1>4, <1>8, ResponseIs DEF responseGsmBrSmsCnf, responseCdmaBrSmsCnf
<1> QED
  BY <1>5, <1>7, <1>9 DEF GivenBack

LEMMA StoredSms ==
    ASSUME ExchangeInv, DeliverSms
    PROVE  unsolResponseFunction("RESPONSE_CDMA_NEW_SMS", <<store.data>>, ElementSize) = Writes(Octets(store.parcel, TRUE))
           /\ Octets(store.parcel, TRUE) \in Seq(Values)
<1> DEFINE response == <<store.data>>
           p == store.parcel
           d == dispatchFunction("CDMA_SEND_SMS", p)
           r == unsolResponseFunction("RESPONSE_CDMA_NEW_SMS", response, ElementSize)
<1>1. store.kind = "sms" /\ r.ret = 0
  BY DEF DeliverSms, RIL_onUnsolicitedResponse
<1>2. store # NothingStored
  BY <1>1 DEF NothingStored
<1>3. PICK request \in DOMAIN Writing : store.kind = Writing[request] /\ StoredBy(request, store)
  BY <1>2 DEF ExchangeInv, Stored
<1>4. request = "CDMA_SEND_SMS"
  BY <1>1, <1>3 DEF Writing
<1>5. p \in Parcels["CDMA_SEND_SMS"] /\ d.calls /\ store.data = d.data
  BY <1>3, <1>4 DEF StoredBy
<1>6. ParcelOf("CDMA_SEND_SMS", p)
  <2>1. "CDMA_SEND_SMS" \in RequestCodes
    BY DEF RequestCodes
  <2> QED
    BY <1>5, <2>1, ExchangeAssumption
<1>7. p \in Seq(Int) /\ d = dispatchCdmaSms(p)
  BY <1>6, StringsInIs, AllNumbers, DispatchIs
<1> HIDE DEF p
<1>q. PICK q : q = Octets(p, TRUE)
  OBVIOUS
<1>s. q \in Seq(Int) /\ Len(q) = Len(p)
  BY <1>7, <1>q, OctetsAre
<1>8. Len(p) <= Trusted(q).end
  BY Zenon, <1>6, <1>q DEF ParcelOf, ReadMessage, Trusted
<1>d. dispatchCdmaSms(p) = IF Len(p) < Trusted(q).end THEN Refused ELSE Calls(Trusted(q).message, 1)
  BY <1>q, DispatchSms
<1>9. ~(Len(p) < Trusted(q).end) /\ d.data = Trusted(q).message
  BY <1>5, <1>7, <1>d DEF Refused, Calls
<1>10. Len(q) = Trusted(q).end
  BY <1>s, <1>8, <1>9, MessageRead, LenProperties
<1>11. r = responseCdmaSms(response, ElementSize)
  BY UnsolIs
<1>12. response # Null
  <2>1. ASSUME response = Null PROVE r.ret = RIL_ERRNO_INVALID_RESPONSE
    BY <1>11, <2>1 DEF responseCdmaSms, INVALID_RESPONSE
  <2> QED
    BY <1>1, <2>1 DEF RIL_ERRNO_INVALID_RESPONSE
<1>13. response[1] = Trusted(q).message
  BY <1>5, <1>9
<1>14. q \in Seq(Values)
  BY <1>s, ValueSeqs
<1>15. responseCdmaSms(response, ElementSize) = Writes(q)
  <2> HIDE DEF response
  <2> QED
    BY <1>s, <1>10, <1>12, <1>13, MessageBack
<1> QED
  BY <1>11, <1>14, <1>15, <1>q DEF p

LEMMA FromStoreStep == ASSUME ExchangeInv, CompleteFromStore PROVE ExchangeInv'
<1>1. call.calls /\ command.request \in DOMAIN Reading
  BY DEF CompleteFromStore
<1>2. CASE store.kind = Reading[command.request]
  <2> DEFINE len == ElementSize * store.len
             r == responseFunction(command.request, store.data, len)
  <2>1. RIL_onRequestComplete(RIL_E_SUCCESS, store.data, len)
    BY <1>2 DEF CompleteFromStore
  <2>2. Carries(r)
    BY <1>1, <1>2, StoredConfig DEF Carries
  <2>3. RIL_E_SUCCESS \in Nat
    BY DEF RIL_E_SUCCESS
  <2> HIDE DEF len
  <2> QED
    BY <2>1, <2>2, <2>3, ExchangeCompletes
<1>3. CASE store.kind # Reading[command.request]
  <2>1. RIL_onRequestComplete(RIL_E_GENERIC_FAILURE, Null, 0)
    BY <1>3 DEF CompleteFromStore
  <2>2. RIL_E_GENERIC_FAILURE \in Nat
    BY DEF RIL_E_GENERIC_FAILURE
  <2> QED
    BY <2>1, <2>2, ExchangeCompletes
<1> QED
  BY <1>2, <1>3

LEMMA AnyhowStep == ASSUME ExchangeInv, CompleteAnyhow PROVE ExchangeInv'
<1>1. command.request \in RequestCodes \ DOMAIN Reading
  BY DEF CompleteAnyhow, ExchangeInv, Pending
<1>2. PICK a \in Answers[command.request] : RIL_onRequestComplete(a.e, a.response, a.len)
  BY DEF CompleteAnyhow
<1>3. a.e \in Nat /\ (a.response # Null => AnswerOf(command.request, a.response, a.len))
  BY <1>1, <1>2, ExchangeAssumption
<1>4. a.response # Null => Carries(responseFunction(command.request, a.response, a.len))
  BY <1>1, <1>3, AnswerCarries
<1> QED
  BY <1>2, <1>3, <1>4, ExchangeCompletes

LEMMA DeliverStep == ASSUME ExchangeInv, DeliverSms PROVE ExchangeInv'
<1> DEFINE response == <<store.data>>
           event == "RESPONSE_CDMA_NEW_SMS"
<1>1. RIL_onUnsolicitedResponse(event, response, ElementSize)
  BY DEF DeliverSms
<1>2. Carries(unsolResponseFunction(event, response, ElementSize))
  BY StoredSms DEF Carries
<1>3. event \in UnsolCodes
  BY DEF UnsolCodes
<1> HIDE DEF response, event
<1> QED
  BY <1>1, <1>2, <1>3, EventStep

LEMMA ReportStep == ASSUME ExchangeInv, Report PROVE ExchangeInv'
<1>1. PICK event \in UnsolCodes : \E r \in Events[event] :
          RIL_onUnsolicitedResponse(event, r.response, r.len)
  BY DEF Report
<1>2. PICK r \in Events[event] : RIL_onUnsolicitedResponse(event, r.response, r.len)
  BY <1>1
<1>3. IF r.response = Null THEN r.len = 0 ELSE EventOf(event, r.response, r.len)
  BY <1>2, ExchangeAssumption
<1>4. unsolResponseFunction(event, r.response, r.len).ret = 0
  BY <1>2 DEF RIL_onUnsolicitedResponse
<1>5. Carries(unsolResponseFunction(event, r.response, r.len))
  BY <1>3, <1>4, EventCarries
<1> QED
  BY <1>2, <1>5, EventStep

LEMMA NextExchange == ExchangeInv /\ [ExchangeNext]_exchangeVars => ExchangeInv'
<1> SUFFICES ASSUME ExchangeInv, [ExchangeNext]_exchangeVars PROVE ExchangeInv'
  OBVIOUS
<1>1. CASE Send
  BY <1>1, SendStep
<1>2. CASE CompleteFromStore
  BY <1>2, FromStoreStep
<1>3. CASE CompleteAnyhow
  BY <1>3, AnyhowStep
<1>4. CASE DeliverSms
  BY <1>4, DeliverStep
<1>5. CASE Report
  BY <1>5, ReportStep
<1>6. CASE UNCHANGED exchangeVars
  BY <1>6 DEF exchangeVars, ExchangeInv, ExchangeTypeOK, ErrorCarriesNoPayload, Pending, Stored
<1> QED
  BY <1>1, <1>2, <1>3, <1>4, <1>5, <1>6 DEF ExchangeNext

\* The pending command is the one its parcel holds, and what the library keeps
\* came in a parcel that was read whole.
THEOREM ExchangeInvariant == ExchangeSpec => []ExchangeInv
  BY InitExchange, NextExchange, PTL DEF ExchangeSpec

\* Whatever the parcels and the library's answers are: nothing unread reaches the
\* library, and no half-written payload the phone.
THEOREM NothingHalfDone == ExchangeSpec => []Marshalled
<1>1. ExchangeInv => Marshalled
  <2> SUFFICES ASSUME ExchangeInv PROVE NoStaleField
    BY DEF Marshalled, ExchangeInv
  <2>1. SUFFICES ASSUME call.calls PROVE Null \notin Numbers(command.request, call.data)
    BY DEF NoStaleField
  <2> DEFINE request == command.request
             p == command.parcel
  <2>2. request \in RequestCodes /\ p \in Parcels[request] /\ call = dispatchFunction(request, p)
    BY <2>1 DEF ExchangeInv, Pending
  <2>3. ParcelOf(request, p)
    BY <2>2, ExchangeAssumption
  <2>4. dispatchFunction(request, p).calls
    BY <2>1, <2>2
  <2> QED
    BY <2>2, <2>3, <2>4, ReadWhole
<1> QED
  BY <1>1, ExchangeInvariant, PTL

\* What an answer writes after the error is the payload.
LEMMA ConfigStep ==
    ASSUME ExchangeInv, CompleteFromStore, store.kind = Reading[command.request]
    PROVE  SubSeq(sent', 3, Len(sent')) = Configured(IF store.kind = "gsm" THEN 5 ELSE 3, store.parcel)
<1> DEFINE w == IF store.kind = "gsm" THEN 5 ELSE 3
           back == Configured(w, store.parcel)
           len == ElementSize * store.len
           r == responseFunction(command.request, store.data, len)
<1>1. command.request \in DOMAIN Reading /\ RIL_onRequestComplete(RIL_E_SUCCESS, store.data, len)
  BY DEF CompleteFromStore
<1>2. store.data # Null /\ r = Writes(back) /\ back \in Seq(Values)
  BY <1>1, StoredConfig
<1>3. r.ret = 0 /\ r.out = back
  <2> HIDE DEF r, back
  <2> QED
    BY <1>2 DEF Writes
<1>4. sent' = <<RESPONSE_SOLICITED, RIL_E_SUCCESS>> \o back
  <2>1. sent' = <<RESPONSE_SOLICITED, IF r.ret # 0 THEN r.ret ELSE RIL_E_SUCCESS>> \o r.out
    BY <1>1, <1>2 DEF RIL_onRequestComplete, AnswerFrame
  <2> HIDE DEF r, back
  <2> QED
    BY <1>3, <2>1
<1>5. RESPONSE_SOLICITED \in Values
  BY ValueSeqs DEF RESPONSE_SOLICITED
<1> HIDE DEF back
<1>6. SubSeq(sent', 3, Len(sent')) = back
  BY <1>2, <1>4, <1>5, FrameOf
<1> QED
  BY <1>6 DEF back

\* A broadcast configuration reads back as it was set, for every parcel.
THEOREM ConfigurationsReadBack == ExchangeSpec => ConfigReadsBack
<1>1. ExchangeInv /\ [ExchangeNext]_exchangeVars =>
        [(CompleteFromStore /\ store.kind = Reading[command.request]) =>
          SubSeq(sent', 3, Len(sent')) = Configured(IF store.kind = "gsm" THEN 5 ELSE 3, store.parcel)]_exchangeVars
  BY ConfigStep
<1> QED
  BY <1>1, ExchangeInvariant, PTL DEF ExchangeSpec, ConfigReadsBack

LEMMA SmsStep ==
    ASSUME ExchangeInv, DeliverSms
    PROVE  sent' = <<RESPONSE_UNSOLICITED, "RESPONSE_CDMA_NEW_SMS">> \o Octets(store.parcel, TRUE)
<1> DEFINE p == Octets(store.parcel, TRUE)
           r == unsolResponseFunction("RESPONSE_CDMA_NEW_SMS", <<store.data>>, ElementSize)
<1>1. sent' = <<RESPONSE_UNSOLICITED, "RESPONSE_CDMA_NEW_SMS">> \o r.out \o More("RESPONSE_CDMA_NEW_SMS")
  BY DEF DeliverSms, RIL_onUnsolicitedResponse
<1>2. r = Writes(p) /\ p \in Seq(Values)
  BY StoredSms
<1>3. r.out = p /\ More("RESPONSE_CDMA_NEW_SMS") = <<>>
  <2> HIDE DEF r, p
  <2> QED
    BY <1>2 DEF Writes, More
<1> DEFINE frame == <<RESPONSE_UNSOLICITED, "RESPONSE_CDMA_NEW_SMS">> \o p
           T == Values \union {"RESPONSE_CDMA_NEW_SMS"}
<1>4. frame \in Seq(T)
  <2> HIDE DEF p
  <2>1. Len(p) \in Nat /\ p = [i \in 1..Len(p) |-> p[i]] /\ \A i \in 1..Len(p) : p[i] \in T
    BY <1>2, LenProperties, ElementOfSeq
  <2>2. <<RESPONSE_UNSOLICITED, "RESPONSE_CDMA_NEW_SMS">> \in Seq(T)
    BY DEF Values, RESPONSE_UNSOLICITED
  <2> HIDE DEF T
  <2>3. [i \in 1..Len(p) |-> p[i]] \in Seq(T)
    BY <2>1, IsASeq
  <2>4. p \in Seq(T)
    BY <2>1, <2>3
  <2> QED
    BY <2>2, <2>4, ConcatProperties
<1>5. frame \o <<>> = frame
  <2> HIDE DEF frame, T
  <2> QED
    BY <1>4, ConcatEmptySeq
<1> QED
  BY <1>1, <1>3, <1>5

\* A CDMA message that is sent and delivered back has the parcel it was sent with, up
\* to the bytes that hold its digits and counts.
THEOREM MessagesReadBack == ExchangeSpec => SmsReadsBack
<1>1. ExchangeInv /\ [ExchangeNext]_exchangeVars =>
        [DeliverSms =>
          sent' = <<RESPONSE_UNSOLICITED, "RESPONSE_CDMA_NEW_SMS">> \o Octets(store.parcel, TRUE)]_exchangeVars
  BY SmsStep
<1> QED
  BY <1>1, ExchangeInvariant, PTL DEF ExchangeSpec, SmsReadsBack

\* What the library is given and gives back reaches the phone as it was sent.
THEOREM WhatIsStoredReadsBack == ExchangeSpec => ReadsBack
  BY ConfigurationsReadBack, MessagesReadBack DEF ReadsBack

-----------------------------------------------------------------------------
(* The inductive invariant. *)

OemHooks == {"OEM_HOOK_RAW", "OEM_HOOK_STRINGS"}

\* The commands and calls that poll the SIM, on whatever thread.
Settings == At("Settings", Null)
PollCommand == At("getSIMStatus", "pollSIMState")
Looks == {"differs", "ready", "notReady"}
Polling ==
    {Settings, PollCommand, Call("pollSIMState"), Later("pollSIMState"),
     Set(SIM_READY), Set(SIM_LOCKED_OR_ABSENT)}
        \union {Changed(s, look) : s \in RadioStates, look \in Looks}

\* Those of initializeCallback that switch the radio, and of requestRadioPower.
Initializing == {Call("isRadioOn"), At("isRadioOn", "initializeCallback"), Set(SIM_NOT_READY)}
ListOf(t, contexts) == At("requestOrSendDataCallList", [t |-> t, contexts |-> contexts])
IsList(i, t) ==
    /\ i.op = "at" /\ i.fn = "requestOrSendDataCallList" /\ i = ListOf(t, i.memo.contexts)
    /\ i.memo.contexts = Null \/ i.memo.contexts \in Seq(Seq(Int))
IsListEvent(i) ==
    /\ i.op = "event" /\ i = Event("DATA_CALL_LIST_CHANGED", i.response, i.len)
    /\ \/ i.response = Null /\ i.len = 0
       \/ i.response \in Seq(Seq(Int)) /\ i.len = ElementSize * Len(i.response)

\* A completion that libril can marshal for the request: the frame it makes.
Marshals(request, i) ==
    LET frame == AnswerFrame(request, i.e, i.response, i.len)
    IN  /\ i.op = "complete" /\ i = Done(i.e, i.response, i.len)
        /\ frame \in Seq(Values) /\ Len(frame) >= 2
        /\ frame[2] = i.e /\ i.e # RIL_ERRNO_INVALID_RESPONSE
Echoes(r, i) ==
    r.request \in OemHooks /\ i.e = RIL_E_SUCCESS =>
        LET frame == AnswerFrame(r.request, i.e, i.response, i.len)
        IN  SubSeq(frame, 3, Len(frame)) =
              IF r.parcel # <<-1>> THEN r.parcel
              ELSE IF r.request = "OEM_HOOK_RAW" THEN <<0>> ELSE <<>>

\* The handler that may send an AT command for a request, and what it remembers.
Handles(request, i) ==
    /\ i.op = "at" /\ i = At(i.fn, i.memo)
    /\ \/ i.fn = "Ignored" /\ request \in IgnoredRequests \union {"SEPARATE_CONNECTION"}
       \/ i.fn = "requestDial" /\ request = "DIAL"
       \/ i.fn = "requestHangup" /\ request = "HANGUP"
       \/ i.fn = "SetNetworkSelectionAutomatic" /\ request = "SET_NETWORK_SELECTION_AUTOMATIC"
       \/ i.fn = "GetNumber" /\ request \in {"GET_IMSI", "GET_IMEI", "CANCEL_USSD"}
       \/ i.fn = "DeleteSmsOnSim" /\ request = "DELETE_SMS_ON_SIM"
       \/ i.fn = "requestWriteSmsToSim" /\ request = "WRITE_SMS_TO_SIM"
       \/ i.fn = "requestSendSMS" /\ request = "SEND_SMS"
       \/ i.fn = "requestSMSAcknowledge" /\ request = "SMS_ACKNOWLEDGE"
       \/ i.fn = "requestEnterSimPin" /\ request \in PinRequests
       \/ i.fn = "requestSIM_IO" /\ request = "SIM_IO"
       \/ i.fn = "requestSignalStrength" /\ request = "SIGNAL_STRENGTH"
       \/ i.fn = "requestQueryNetworkSelectionMode" /\ request = "QUERY_NETWORK_SELECTION_MODE"
       \/ i.fn = "requestRegistrationState"
            /\ request \in {"REGISTRATION_STATE", "GPRS_REGISTRATION_STATE"}
       \/ i.fn = "requestOperator" /\ request = "OPERATOR"
       \/ i.fn = "requestSetupDataCall" /\ request = "SETUP_DATA_CALL"
       \/ IsList(i, "request") /\ request = "DATA_CALL_LIST"
       \/ i.fn = "requestGetCurrentCalls" /\ i.memo \in Int /\ request = "GET_CURRENT_CALLS"
       \/ i.fn = "getSIMStatus" /\ i.memo = "getCardStatus" /\ request = "GET_SIM_STATUS"
PowerCommand(parcel) == At("requestRadioPower", ReadMany(parcel, 1, parcel[1]))
Powering(parcel) ==
    IF parcel[2] = 0 THEN {PowerCommand(parcel), Set(OFF)}
    ELSE {PowerCommand(parcel), At("isRadioOn", "requestRadioPower"), Set(SIM_NOT_READY)}
PowersOff(r) == r.request = "RADIO_POWER" /\ r.parcel[2] = 0

\* What the command thread may have to do, in a callback and for a request.
OfCallback(i) ==
    \/ i \in Polling \union Initializing \union {Set(OFF)}
    \/ IsList(i, "callback") \/ IsListEvent(i)
OfRequest(r, i) ==
    \/ i \in Polling /\ (PowersOff(r) => i = Settings \/ i.op = "changed")
    \/ i = Segfault \/ i = Later("sendCallStateChanged")
    \/ Marshals(r.request, i) /\ Echoes(r, i)
    \/ Handles(r.request, i)
    \/ r.request = "RADIO_POWER" /\ i \in Powering(r.parcel)

Of(r, i) == IF r = NoRequest THEN OfCallback(i) ELSE OfRequest(r, i)

\* A stack is a sequence, of whatever is on it.
Stack(w) == w \in Seq({w[k] : k \in DOMAIN w})
On(t, k) == work[t][k]
CommandInv ==
    /\ Stack(work[E]) /\ \A k \in DOMAIN work[E] : Of(current, On(E, k))
    /\ current = NoRequest => answer = NoAnswer

\* What will answer the request.
Answering(i) ==
    \/ i.op \in {"complete", "segfault"}
    \/ /\ i.op = "at" /\ i.fn # "Settings" /\ i # PollCommand
AnswerInv ==
    /\ (current # NoRequest /\ answer.count = 0
          /\ current.request # "SET_NETWORK_SELECTION_AUTOMATIC")
       => \E k \in DOMAIN work[E] : Answering(On(E, k))
    /\ answer = [frame |-> answer.frame, count |-> answer.count]
    /\ answer.count \in 0..2 /\ (answer.frame = <<>> <=> answer.count = 0)
    /\ answer.frame # <<>> =>
          /\ answer.frame[2] # RIL_ERRNO_INVALID_RESPONSE
          /\ answer.frame \in Seq(Values) /\ Len(answer.frame) >= 2
          /\ (current.request \in OemHooks /\ answer.frame[2] = RIL_E_SUCCESS) =>
                SubSeq(answer.frame, 3, Len(answer.frame)) =
                  IF current.parcel # <<-1>> THEN current.parcel
                  ELSE IF current.request = "OEM_HOOK_RAW" THEN <<0>> ELSE <<>>

\* What makes the radio SIM_NOT_READY: once at most, and not while it is, but for
\* what comes before it in initializeCallback.
Radio(i) == i \in Initializing \/ i = At("isRadioOn", "requestRadioPower")
              \/ (i.op = "at" /\ i.fn = "requestRadioPower" /\ i.memo[1] > 0)
RadioInv ==
    /\ \A k, l \in DOMAIN work[E] : Radio(On(E, k)) /\ Radio(On(E, l)) => k = l
    /\ \A k \in DOMAIN work[E] : On(E, k) = Set(OFF) => k = 1
    /\ (\E k \in DOMAIN work[E] : Radio(On(E, k))) =>
          sState # SIM_NOT_READY \/ On(E, 1) = Set(OFF)

\* Whoever polls the SIM, or makes the radio something else.
Owes(i) ==
    \/ i \in {PollCommand, Call("pollSIMState"), Later("pollSIMState")}
    \/ i.op = "set" /\ i.state # SIM_NOT_READY
    \/ i.op = "changed" /\ (i.look = "differs" => i.old # SIM_NOT_READY)
PollInv ==
    (sState = SIM_NOT_READY /\ timers["initializeCallback"] = 0) =>
        \/ timers["pollSIMState"] > 0
        \/ \E t \in Threads : \E k \in DOMAIN work[t] : Owes(On(t, k))

\* A radio that is UNAVAILABLE though its channel is open.
OpenInv ==
    (sState = UNAVAILABLE /\ main = "waitForClose" /\ timers["initializeCallback"] = 0) =>
        s_closed \/ overtaken \/ Doing(E, "set")

\* A power request that has succeeded, or is about to.
Success(i) == i.op = "complete" /\ i.e = RIL_E_SUCCESS
Switching(w) == 1 \in DOMAIN w /\ w[1] \in {Set(OFF), Set(SIM_NOT_READY)}
PowerInv ==
    /\ (/\ current.request = "RADIO_POWER"
        /\ \/ answer.frame # <<>> /\ answer.frame[2] = RIL_E_SUCCESS
           \/ ~Switching(work[E]) /\ \E k \in DOMAIN work[E] : Success(On(E, k)))
       => \/ overtaken
          \/ IF current.parcel[2] = 0 THEN sState \in {OFF, UNAVAILABLE} ELSE sState # OFF
    /\ PowersOff(current) /\ (\E k \in DOMAIN work[E] : On(E, k).op = "changed") =>
          sState # SIM_NOT_READY

\* The workaround for rings: while the calls are asked for, no line is remembered.
GetsCalls(i) == i.op = "at" /\ i.fn = "requestGetCurrentCalls"
CallsInv ==
    /\ calls.incoming \in Int /\ calls.repolls \in 0..1 /\ calls.expect \in BOOLEAN
    /\ calls = [incoming |-> calls.incoming, repolls |-> calls.repolls, expect |-> calls.expect]
    /\ calls.repolls = 1 => calls.incoming = -1
    /\ \A k \in DOMAIN work[E] : GetsCalls(On(E, k)) =>
          /\ Len(work[E]) = 1
          /\ USE_TI_COMMANDS => calls.incoming = -1
          /\ calls.repolls = 1 => On(E, k).memo = -1

\* The readers.
Gone(r) == r < opens \/ (r = opens /\ main = "at_open")
Past(r) == reader[r] = "ended" /\ (s_closed \/ Gone(r))
ReaderInv(r) ==
    \/ work[r] = <<>>
    \/ /\ work[r] = <<Closed, Set(UNAVAILABLE)>>
       /\ reader[r] = "ended" /\ r = opens /\ ~s_closed /\ main \in {"initialize", "waitForClose"}
    \/ work[r] = <<Set(UNAVAILABLE)>> /\ Past(r)
    \/ /\ \E s \in RadioStates, look \in Looks : work[r] = <<Changed(s, look)>>
       /\ Past(r) /\ (sState = UNAVAILABLE \/ Gone(r))
    \/ /\ overtaken /\ reader[r] = "ended" /\ Gone(r)
       /\ Stack(work[r]) /\ \A k \in DOMAIN work[r] : On(r, k) \in Polling
MainInv ==
    /\ \A r \in Sessions : reader[r] = "none" <=> r > opens
    /\ \A r \in Sessions : reader[r] # "ended" => work[r] = <<>>
    /\ \A r \in Sessions : reader[r] = "reading" =>
          r = opens /\ ~s_closed /\ main \in {"initialize", "waitForClose"}
    /\ opens = 0 => main \in {"open", "at_open"}
    /\ main = "at_open" => ~s_closed /\ opens < MaxOpens
    /\ s_closed => opens > 0 /\ reader[opens] = "ended"
    /\ \A r \in Sessions : ReaderInv(r)

RefInv ==
    /\ TypeOK /\ CommandInv /\ AnswerInv /\ RadioInv /\ PollInv /\ OpenInv /\ PowerInv
    /\ CallsInv /\ MainInv

\* The lines of calls that are kept are lines that were given.
LEMMA ValidCallsSeq ==
    ASSUME NEW o, NEW S, o.lines \in Seq(S)
    PROVE  ValidCalls(o) \in Seq({line \in S : callFromCLCCLine(line)})
<1> DEFINE n == Len(o.lines)
           V == {line \in S : callFromCLCCLine(line)}
           Next1(g, i) == IF i = 0 THEN <<>>
                          ELSE IF callFromCLCCLine(o.lines[i]) THEN Append(g[i - 1], o.lines[i])
                          ELSE g[i - 1]
           Valid(g, k) == \A i \in 0..k : g[i] = Next1(g, i)
           F == {k \in Nat : k <= n => \E g \in [0..k -> Seq(V)] : Valid(g, k)}
<1>0. n \in Nat /\ \A i \in 1..n : o.lines[i] \in S
  BY LenProperties, ElementOfSeq
<1>a. <<>> \in Seq(V)
  BY EmptySeq
<1>b. ASSUME NEW s \in Seq(V), NEW i \in 1..n, callFromCLCCLine(o.lines[i])
      PROVE  Append(s, o.lines[i]) \in Seq(V)
  BY <1>0, <1>b, AppendProperties
<1>z. ASSUME NEW k \in Nat, NEW g, NEW h, \A i \in 0..k : h[i] = g[i], NEW i \in 0..(k + 1)
      PROVE  Next1(h, i) = Next1(g, i)
  BY <1>z
<1> HIDE DEF n, V
<1>y. ASSUME NEW k \in Nat, NEW g \in [0..k -> Seq(V)], k + 1 <= n
      PROVE  Next1(g, k + 1) \in Seq(V)
  <2>1. g[k] \in Seq(V) /\ k + 1 \in 1..n
    BY <1>0, <1>y
  <2> QED
    BY <1>b, <2>1
<1>x. \A g : Next1(g, 0) \in Seq(V)
  BY <1>a
<1> HIDE DEF Next1
<1>1. 0 \in F
  <2> DEFINE g == [i \in 0..0 |-> Next1(<<>>, 0)]
  <2>1. g \in [0..0 -> Seq(V)]
    BY <1>x
  <2>2. g[0] = Next1(g, 0)
    BY DEF Next1
  <2>3. Valid(g, 0)
    <3> HIDE DEF g
    <3> QED
      BY <2>2
  <2> QED
    BY <2>1, <2>3
<1>2. ASSUME NEW k \in Nat, k \in F PROVE k + 1 \in F
  <2> SUFFICES ASSUME k + 1 <= n PROVE \E h \in [0..(k + 1) -> Seq(V)] : Valid(h, k + 1)
    BY DEF F
  <2>1. \E g \in [0..k -> Seq(V)] : Valid(g, k)
    BY <1>0, <1>2
  <2>2. PICK g \in [0..k -> Seq(V)] : Valid(g, k)
    BY <2>1
  <2> DEFINE h == [i \in 0..(k + 1) |-> Next1(g, i)]
  <2>3. \A i \in 0..(k + 1) : h[i] = Next1(g, i)
    OBVIOUS
  <2>4. \A i \in 0..k : g[i] \in Seq(V) /\ g[i] = Next1(g, i)
    BY <2>2
  <2>5. \A i \in 0..k : h[i] = g[i]
    BY <2>3, <2>4
  <2>6. \A i \in 0..(k + 1) : Next1(g, i) \in Seq(V)
    BY <1>y, <2>2, <2>4
  <2>7. h \in [0..(k + 1) -> Seq(V)]
    BY <2>6
  <2>8. \A i \in 0..(k + 1) : Next1(h, i) = Next1(g, i)
    <3> HIDE DEF h
    <3> QED
      BY <1>z, <2>5
  <2>9. Valid(h, k + 1)
    BY <2>3, <2>8
  <2> QED
    BY <2>7, <2>9
<1>3. n \in F
  <2> HIDE DEF F
  <2> QED
    BY <1>0, <1>1, <1>2, SetInduction
<1>4. \E g : g = [i \in 0..n |-> Next1(g, i)]
  <2>1. \E g \in [0..n -> Seq(V)] : Valid(g, n)
    BY <1>0, <1>3
  <2>2. PICK g \in [0..n -> Seq(V)] : Valid(g, n)
    BY <2>1
  <2>3. g = [i \in 0..n |-> Next1(g, i)]
    BY <2>2
  <2> QED
    BY <2>3
<1> DEFINE f == CHOOSE f : f = [i \in 0..n |-> Next1(f, i)]
<1>5. f = [i \in 0..n |-> Next1(f, i)]
  BY <1>4
<1> HIDE DEF f, F
<1>c. \A i \in 0..n : f[i] = Next1(f, i)
  BY <1>5
<1> DEFINE G == {k \in Nat : k <= n => f[k] \in Seq(V)}
<1>6. 0 \in G
  BY <1>0, <1>x, <1>c
<1>7. ASSUME NEW k \in Nat, k \in G PROVE k + 1 \in G
  <2> SUFFICES ASSUME k + 1 <= n PROVE f[k + 1] \in Seq(V)
    OBVIOUS
  <2>1. f[k] \in Seq(V) /\ k + 1 \in 1..n
    BY <1>0, <1>7
  <2>2. f[k + 1] = Next1(f, k + 1)
    BY <1>c, <2>1
  <2> QED
    BY <1>b, <2>1, <2>2 DEF Next1
<1>8. n \in G
  <2> HIDE DEF G
  <2> QED
    BY <1>0, <1>6, <1>7, SetInduction
<1>9. ValidCalls(o) = f[n]
  BY DEF ValidCalls, f, n, Next1
<1> QED
  BY <1>0, <1>8, <1>9 DEF V

-----------------------------------------------------------------------------
(* What libril makes of a completion. *)

LEMMA Consts ==
    /\ Null \notin Int /\ Null \notin Seq(Values) /\ Null \notin Seq(Seq(Values))
    /\ RIL_E_SUCCESS = 0 /\ RIL_E_RADIO_NOT_AVAILABLE = 1 /\ RIL_E_GENERIC_FAILURE = 2
    /\ RIL_E_PASSWORD_INCORRECT = 3 /\ RIL_E_REQUEST_NOT_SUPPORTED = 6
    /\ RIL_ERRNO_INVALID_RESPONSE = -1 /\ ElementSize = 2
  BY MarshalAssumption DEF Values, RIL_E_SUCCESS, RIL_E_RADIO_NOT_AVAILABLE, RIL_E_GENERIC_FAILURE,
     RIL_E_PASSWORD_INCORRECT, RIL_E_REQUEST_NOT_SUPPORTED, RIL_ERRNO_INVALID_RESPONSE, ElementSize

\* No payload.
LEMMA NullFrame ==
    ASSUME NEW request, NEW e \in {0, 1, 2, 3, 6}
    PROVE  Marshals(request, Done(e, Null, 0))
<1>1. AnswerFrame(request, e, Null, 0) = <<0, e>>
  BY DEF AnswerFrame, RESPONSE_SOLICITED
<1>2. <<0, e>> \in Seq(Values) /\ Len(<<0, e>>) = 2 /\ <<0, e>>[2] = e
  BY DEF Values
<1>3. Done(e, Null, 0).e = e /\ Done(e, Null, 0).response = Null /\ Done(e, Null, 0).len = 0
      /\ Done(e, Null, 0).op = "complete"
  BY DEF Done
<1>4. e # RIL_ERRNO_INVALID_RESPONSE
  BY Consts
<1> DEFINE i == Done(e, Null, 0)
<1>5. i = Done(i.e, i.response, i.len)
  BY <1>3
<1>6. AnswerFrame(request, i.e, i.response, i.len) = <<0, e>> /\ i.op = "complete" /\ i.e = e
  BY <1>1, <1>3
<1> HIDE DEF i
<1>7. Marshals(request, i)
  BY <1>2, <1>4, <1>5, <1>6 DEF Marshals
<1> QED
  BY <1>7 DEF i

\* A payload that its function marshals.
LEMMA Framed ==
    ASSUME NEW request, NEW response, NEW len, response # Null,
           NEW out \in Seq(Values), responseFunction(request, response, len) = Writes(out)
    PROVE  /\ Marshals(request, Done(RIL_E_SUCCESS, response, len))
           /\ LET frame == AnswerFrame(request, RIL_E_SUCCESS, response, len)
              IN  SubSeq(frame, 3, Len(frame)) = out
<1> DEFINE frame == AnswerFrame(request, RIL_E_SUCCESS, response, len)
<1>1. frame = <<0, 0>> \o out
  BY DEF AnswerFrame, Writes, RESPONSE_SOLICITED, RIL_E_SUCCESS
<1>2. <<0, 0>> \in Seq(Values) /\ Len(<<0, 0>>) = 2 /\ Len(out) \in Nat
  BY LenProperties DEF Values
<1>3. /\ frame \in Seq(Values) /\ Len(frame) = 2 + Len(out)
      /\ \A i \in 1..(2 + Len(out)) : frame[i] = IF i <= 2 THEN <<0, 0>>[i] ELSE out[i - 2]
  BY <1>1, <1>2, ConcatProperties
<1> HIDE DEF frame
<1>4. frame[2] = 0
  <2>1. 2 \in 1..(2 + Len(out)) /\ <<0, 0>>[2] = 0
    BY <1>2
  <2> QED
    BY <1>3, <2>1
<1>5. SubSeq(frame, 3, Len(frame)) = out
  <2>1. \A i \in 3..Len(frame) : frame[i] \in Values
    BY <1>2, <1>3, ElementOfSeq
  <2>2. /\ SubSeq(frame, 3, Len(frame)) \in Seq(Values)
        /\ Len(SubSeq(frame, 3, Len(frame))) = IF 3 <= Len(frame) THEN Len(frame) - 3 + 1 ELSE 0
        /\ \A i \in 1..(Len(frame) - 3 + 1) : SubSeq(frame, 3, Len(frame))[i] = frame[3 + i - 1]
    BY <1>2, <1>3, <2>1, SubSeqProperties
  <2>3. Len(SubSeq(frame, 3, Len(frame))) = Len(out)
    BY <1>2, <1>3, <2>2
  <2>4. ASSUME NEW i \in 1..Len(out) PROVE SubSeq(frame, 3, Len(frame))[i] = out[i]
    <3>1. i \in 1..(Len(frame) - 3 + 1) /\ 3 + i - 1 \in 1..(2 + Len(out)) /\ ~(3 + i - 1 <= 2)
          /\ (3 + i - 1) - 2 = i
      BY <1>2, <1>3
    <3> QED
      BY <1>3, <2>2, <3>1
  <2> QED
    BY <2>2, <2>3, <2>4, SeqEqual
<1> QED
  BY <1>2, <1>3, <1>4, <1>5, Consts DEF Marshals, Done, frame

\* Arrays, arrays of structures, structures and strings.
LEMMA Arrays ==
    ASSUME NEW response, response # Null, NEW n \in Nat, \A i \in 1..n : response[i] \in Values
    PROVE  /\ Array(response, ElementSize * n) = Writes(<<n>> \o [i \in 1..n |-> response[i]])
           /\ <<n>> \o [i \in 1..n |-> response[i]] \in Seq(Values)
<1>1. ElementSize * n % ElementSize = 0 /\ (ElementSize * n) \div ElementSize = n
  BY Consts
<1>2. Array(response, ElementSize * n) = Writes(<<n>> \o [i \in 1..n |-> response[i]])
  BY <1>1 DEF Array, BadArray
<1>3. [i \in 1..n |-> response[i]] \in Seq(Values) /\ <<n>> \in Seq(Values)
  BY DEF Values
<1> QED
  BY <1>2, <1>3, ConcatProperties

LEMMA Structs ==
    ASSUME NEW response \in Seq(Seq(Values)), response # Null
    PROVE  \E out \in Seq(Values) : ArrayOfStructs(response, ElementSize * Len(response)) = Writes(out)
<1> DEFINE n == Len(response)
           out == <<n>> \o FlattenSeq([i \in 1..n |-> response[i]])
<1>1. n \in Nat /\ [i \in 1..n |-> response[i]] \in Seq(Seq(Values))
  BY LenProperties, ElementOfSeq
<1>2. ElementSize * n % ElementSize = 0 /\ (ElementSize * n) \div ElementSize = n
  BY <1>1, Consts
<1>3. ArrayOfStructs(response, ElementSize * n) = Writes(out)
  BY <1>2 DEF ArrayOfStructs, BadArray
<1>4. <<n>> \in Seq(Values) /\ FlattenSeq([i \in 1..n |-> response[i]]) \in Seq(Values)
  BY <1>1, Flattened DEF Values
<1>5. out \in Seq(Values)
  BY <1>4, ConcatProperties
<1> QED
  BY <1>3, <1>5

LEMMA OneStruct ==
    ASSUME NEW response, response # Null, response[1] \in Seq(Values)
    PROVE  Struct(response, ElementSize) = Writes(response[1])
  BY DEF Struct

LEMMA Raw ==
    ASSUME NEW n \in Nat, NEW response \in Seq(Values), Len(response) = n, response # Null
    PROVE  /\ responseRaw(response, ElementSize * n) = Writes(<<n>> \o response)
           /\ <<n>> \o response \in Seq(Values)
<1>1. (ElementSize * n) \div ElementSize = n
  BY Consts
<1>2. <<n>> \in Seq(Values)
  BY DEF Values
<1> QED
  BY <1>1, <1>2, ConcatProperties DEF responseRaw

\* Which function marshals what.
LEMMA ResponseOf ==
    ASSUME NEW request, NEW response, NEW len
    PROVE  /\ request \in {"REGISTRATION_STATE", "GPRS_REGISTRATION_STATE", "OPERATOR",
                           "SETUP_DATA_CALL", "OEM_HOOK_STRINGS"} =>
                  responseFunction(request, response, len) = Array(response, len)
           /\ request = "QUERY_NETWORK_SELECTION_MODE" =>
                  responseFunction(request, response, len) = Array(response, len)
           /\ request \in {"GET_IMSI", "GET_IMEI"} =>
                  responseFunction(request, response, len) = responseString(response, len)
           /\ request = "CANCEL_USSD" => responseFunction(request, response, len) = Writes(<<>>)
           /\ request \in {"SEND_SMS", "SIM_IO"} =>
                  responseFunction(request, response, len) = Struct(response, len)
           /\ request \in {"GET_CURRENT_CALLS", "DATA_CALL_LIST"} =>
                  responseFunction(request, response, len) = ArrayOfStructs(response, len)
           /\ request = "SIGNAL_STRENGTH" =>
                  responseFunction(request, response, len) = responseRilSignalStrength(response, len)
           /\ request = "GET_SIM_STATUS" =>
                  responseFunction(request, response, len) = responseSimStatus(response, len)
           /\ request = "OEM_HOOK_RAW" =>
                  responseFunction(request, response, len) = responseRaw(response, len)
  BY DEF responseFunction, IntsResponses, StringResponses, StringsResponses, SMSResponses,
         responseStrings, responseInts, responseSMS, responseSIM_IO, responseCallList,
         responseDataCallList, responseVoid

-----------------------------------------------------------------------------
(* Stacks. *)

LEMMA IsStack ==
    ASSUME NEW S, NEW w \in Seq(S)
    PROVE  Stack(w) /\ Len(w) \in Nat /\ DOMAIN w = 1..Len(w)
<1> DEFINE R == {w[k] : k \in DOMAIN w}
<1>1. Len(w) \in Nat /\ DOMAIN w = 1..Len(w) /\ w = [k \in 1..Len(w) |-> w[k]]
  BY LenProperties
<1>2. \A k \in 1..Len(w) : w[k] \in R
  BY <1>1
<1> HIDE DEF R
<1>3. [k \in 1..Len(w) |-> w[k]] \in Seq(R)
  BY <1>1, <1>2, IsASeq
<1>4. w \in Seq(R)
  BY <1>1, <1>3
<1> QED
  BY <1>1, <1>4 DEF Stack, R

LEMMA Tuples ==
    /\ Stack(<<>>) /\ DOMAIN <<>> = {}
    /\ \A a : Stack(<<a>>) /\ DOMAIN <<a>> = {1} /\ <<a>>[1] = a
    /\ \A a, b : Stack(<<a, b>>) /\ DOMAIN <<a, b>> = {1, 2} /\ <<a, b>>[1] = a /\ <<a, b>>[2] = b
    /\ \A a, b, c : Stack(<<a, b, c>>) /\ DOMAIN <<a, b, c>> = {1, 2, 3}
                      /\ <<a, b, c>>[1] = a /\ <<a, b, c>>[2] = b /\ <<a, b, c>>[3] = c
<1>0. ASSUME NEW S, NEW w \in Seq(S) PROVE Stack(w)
  BY <1>0, IsStack
<1>1. Stack(<<>>) /\ DOMAIN <<>> = {}
  <2>1. <<>> \in Seq({}) /\ DOMAIN <<>> = {}
    BY EmptySeq
  <2> QED
    BY <1>0, <2>1
<1>2. ASSUME NEW a PROVE Stack(<<a>>) /\ DOMAIN <<a>> = {1} /\ <<a>>[1] = a
  <2>1. <<a>> \in Seq({a})
    OBVIOUS
  <2>2. Stack(<<a>>)
    BY <1>0, <2>1
  <2>3. DOMAIN <<a>> = {1} /\ <<a>>[1] = a
    OBVIOUS
  <2> QED
    BY <2>2, <2>3
<1>3. ASSUME NEW a, NEW b
      PROVE  Stack(<<a, b>>) /\ DOMAIN <<a, b>> = {1, 2} /\ <<a, b>>[1] = a /\ <<a, b>>[2] = b
  <2>1. <<a, b>> \in Seq({a, b})
    OBVIOUS
  <2>2. Stack(<<a, b>>)
    BY <1>0, <2>1
  <2>3. DOMAIN <<a, b>> = {1, 2} /\ <<a, b>>[1] = a /\ <<a, b>>[2] = b
    OBVIOUS
  <2> QED
    BY <2>2, <2>3
<1>4. ASSUME NEW a, NEW b, NEW c
      PROVE  Stack(<<a, b, c>>) /\ DOMAIN <<a, b, c>> = {1, 2, 3}
             /\ <<a, b, c>>[1] = a /\ <<a, b, c>>[2] = b /\ <<a, b, c>>[3] = c
  <2>1. <<a, b, c>> \in Seq({a, b, c})
    OBVIOUS
  <2>2. Stack(<<a, b, c>>)
    BY <1>0, <2>1
  <2>3. DOMAIN <<a, b, c>> = {1, 2, 3} /\ <<a, b, c>>[1] = a /\ <<a, b, c>>[2] = b /\ <<a, b, c>>[3] = c
    OBVIOUS
  <2> QED
    BY <2>2, <2>3
<1> QED
  BY <1>1, <1>2, <1>3, <1>4

\* A stack v where ins have taken the place of the top of w.
Over(v, ins, w) ==
    /\ Stack(v) /\ Len(ins) \in Nat /\ Len(w) \in Nat \ {0} /\ Head(w) = w[1]
    /\ DOMAIN ins = 1..Len(ins) /\ DOMAIN w = 1..Len(w) /\ 1 \in DOMAIN w
    /\ Len(v) = Len(ins) + Len(w) - 1 /\ DOMAIN v = 1..(Len(ins) + Len(w) - 1)
    /\ \A i \in DOMAIN ins : i \in DOMAIN v /\ v[i] = ins[i]
    /\ \A j \in DOMAIN w : j # 1 => j + Len(ins) - 1 \in DOMAIN v /\ v[j + Len(ins) - 1] = w[j]
    /\ \A i \in DOMAIN v : \/ i \in DOMAIN ins /\ v[i] = ins[i]
                           \/ \E j \in DOMAIN w : j # 1 /\ i = j + Len(ins) - 1 /\ v[i] = w[j]

LEMMA PushedOver ==
    ASSUME NEW ins, NEW w, Stack(ins), Stack(w), w # <<>>
    PROVE  Over(ins \o Tail(w), ins, w)
<1> DEFINE S == {ins[k] : k \in DOMAIN ins} \union {w[k] : k \in DOMAIN w}
           v == ins \o Tail(w)
           m == Len(ins)
           n == Len(w)
<1>1. ins \in Seq(S) /\ w \in Seq(S)
  BY SeqMonotonic DEF Stack
<1> HIDE DEF S
<1>2. m \in Nat /\ n \in Nat \ {0} /\ DOMAIN ins = 1..m /\ DOMAIN w = 1..n /\ Head(w) = w[1]
  BY <1>1, LenProperties, EmptySeq
<1>3. Tail(w) \in Seq(S) /\ Len(Tail(w)) = n - 1 /\ \A i \in 1..(n - 1) : Tail(w)[i] = w[i + 1]
  BY <1>1, HeadTailProperties
<1>4. /\ v \in Seq(S) /\ Len(v) = m + (n - 1)
      /\ \A i \in 1..(m + (n - 1)) : v[i] = IF i <= m THEN ins[i] ELSE Tail(w)[i - m]
  BY <1>1, <1>3, ConcatProperties
<1>5. Stack(v) /\ DOMAIN v = 1..(m + n - 1)
  BY <1>2, <1>4, IsStack
<1> HIDE DEF m, n, v
<1>6. ASSUME NEW i \in 1..m PROVE i \in DOMAIN v /\ v[i] = ins[i]
  BY <1>2, <1>4, <1>5
<1>7. ASSUME NEW j \in 1..n, j # 1 PROVE j + m - 1 \in DOMAIN v /\ v[j + m - 1] = w[j]
  <2>1. /\ j + m - 1 \in 1..(m + (n - 1)) /\ ~(j + m - 1 <= m) /\ (j + m - 1) - m = j - 1
        /\ j - 1 \in 1..(n - 1) /\ (j - 1) + 1 = j
    BY <1>2, <1>7
  <2> QED
    BY <1>3, <1>4, <1>5, <2>1
<1>8. ASSUME NEW i \in DOMAIN v
      PROVE  \/ i \in 1..m /\ v[i] = ins[i]
             \/ \E j \in 1..n : j # 1 /\ i = j + m - 1 /\ v[i] = w[j]
  <2>1. CASE i <= m
    BY <1>2, <1>5, <1>6, <2>1
  <2>2. CASE ~(i <= m)
    <3> DEFINE j == i - m + 1
    <3>1. j \in 1..n /\ j # 1 /\ i = j + m - 1
      BY <1>2, <1>5, <2>2
    <3>2. v[i] = w[j]
      BY <1>7, <3>1
    <3> QED
      BY <3>1, <3>2
  <2> QED
    BY <2>1, <2>2
<1>9. Len(v) = m + n - 1 /\ 1 \in 1..n
  BY <1>2, <1>4
<1> QED
  BY <1>2, <1>5, <1>6, <1>7, <1>8, <1>9, Zenon DEF Over, m, n, v

-----------------------------------------------------------------------------
(* What follows an AT command. *)

LEMMA OutcomeIs ==
    ASSUME NEW t, NEW fn, NEW m, NEW o \in Outcomes(t, fn, m)
    PROVE  \/ o = Lost
           \/ \E cme \in Int : o = Refuses(cme)
           \/ \E lines \in Lines(fn, m) : o = Gives(lines)
  BY DEF Outcomes, CME_SIM_NOT_INSERTED

LEMMA OutcomeFields ==
    /\ Lost # Start /\ Failed(Lost) /\ Lost.err
    /\ \A cme : /\ Refuses(cme) # Start /\ Failed(Refuses(cme)) /\ ~Refuses(cme).err
                /\ ~Refuses(cme).success /\ Refuses(cme).cme = cme
    /\ \A lines : /\ Gives(lines) # Start /\ ~Failed(Gives(lines)) /\ ~Gives(lines).err
                  /\ Gives(lines).success /\ Gives(lines).lines = lines
  BY DEF Lost, Refuses, Gives, Start, Failed

LEMMA RequestIs ==
    ASSUME NEW r \in Requests
    PROVE  /\ r.request \in RequestCodes /\ r.request # "none" /\ r # NoRequest
           /\ Sendable(r.request, r.parcel)
<1>1. r.request \in RequestCodes /\ Sendable(r.request, r.parcel)
  BY ReferenceAssumption DEF Sendable
<1>2. r.request # "none"
  BY <1>1 DEF RequestCodes, StringsRequests, StringRequests, IntsRequests, VoidRequests,
     CallForwardRequests
<1>3. NoRequest.request = "none"
  BY DEF NoRequest
<1> QED
  BY <1>1, <1>2, <1>3

\* What may take the place of an instruction i.
Good(r, i, ins) ==
    /\ Stack(ins) /\ \A k \in DOMAIN ins : Of(r, ins[k]) /\ ~GetsCalls(ins[k])
    /\ \A k \in DOMAIN ins : ins[k] = Set(OFF) => k = 1
    /\ (r # NoRequest /\ r.request # "SET_NETWORK_SELECTION_AUTOMATIC" /\ Answering(i)) =>
          \E k \in DOMAIN ins : Answering(ins[k])
    /\ \A k, l \in DOMAIN ins : Radio(ins[k]) => Radio(i) /\ (Radio(ins[l]) => k = l)
    /\ Owes(i) => \E k \in DOMAIN ins : Owes(ins[k])
    /\ (r.request = "RADIO_POWER" /\ \E k \in DOMAIN ins : Success(ins[k])) =>
          ins[1] \in {Set(OFF), Set(SIM_NOT_READY)}
    /\ PowersOff(r) => \A k \in DOMAIN ins : ins[k].op # "changed"

\* What the handlers of most requests put there.
Plainly(request, ins) ==
    /\ Stack(ins)
    /\ \A k \in DOMAIN ins :
          \/ Marshals(request, ins[k])
          \/ Handles(request, ins[k]) /\ ~GetsCalls(ins[k])
          \/ ins[k] \in {Segfault, Later("sendCallStateChanged")}
    /\ request # "SET_NETWORK_SELECTION_AUTOMATIC" => 1 \in DOMAIN ins /\ Answering(ins[1])

LEMMA HandlesIs ==
    ASSUME NEW request, NEW i, Handles(request, i)
    PROVE  /\ i.op = "at" /\ i = At(i.fn, i.memo) /\ ~Radio(i) /\ ~Owes(i)
           /\ request # "RADIO_POWER" /\ request \notin OemHooks
           /\ i.fn # "Settings" /\ i # PollCommand
<1>1. i.op = "at" /\ i = At(i.fn, i.memo)
  BY DEF Handles
<1>2. request # "RADIO_POWER" /\ request \notin OemHooks
  BY DEF Handles, OemHooks, IgnoredRequests, PinRequests
<1>3. i.fn \notin {"isRadioOn", "requestRadioPower", "Settings"}
  BY DEF Handles, IsList
<1>4. i # PollCommand
  <2>1. PollCommand.fn = "getSIMStatus" /\ PollCommand.memo = "pollSIMState"
    BY DEF PollCommand, At
  <2> QED
    BY <2>1 DEF Handles, IsList
<1>5. ~Radio(i)
  BY <1>1, <1>3 DEF Radio, Initializing, At, Call, Set
<1>6. ~Owes(i)
  BY <1>1, <1>4 DEF Owes, Call, Later
<1> QED
  BY <1>1, <1>2, <1>3, <1>4, <1>5, <1>6

LEMMA PlainIsGood ==
    ASSUME NEW r \in Requests, NEW i, Handles(r.request, i), NEW ins, Plainly(r.request, ins)
    PROVE  Good(r, i, ins)
<1>1. /\ r # NoRequest /\ r.request # "RADIO_POWER" /\ r.request \notin OemHooks
      /\ ~Radio(i) /\ ~Owes(i) /\ ~PowersOff(r)
  BY RequestIs, HandlesIs DEF PowersOff
<1>2. ASSUME NEW k \in DOMAIN ins
      PROVE  Of(r, ins[k]) /\ ~GetsCalls(ins[k]) /\ ins[k] # Set(OFF) /\ ~Radio(ins[k])
  <2>1. CASE Marshals(r.request, ins[k])
    <3>1. ins[k].op = "complete"
      BY <2>1 DEF Marshals
    <3>2. Of(r, ins[k])
      BY <1>1, <2>1 DEF Of, OfRequest, Echoes
    <3> QED
      BY <3>1, <3>2 DEF GetsCalls, Set, Radio, Initializing, At, Call
  <2>2. CASE Handles(r.request, ins[k]) /\ ~GetsCalls(ins[k])
    <3>1. ins[k].op = "at" /\ ~Radio(ins[k])
      BY <2>2, HandlesIs
    <3> QED
      BY <1>1, <2>2, <3>1 DEF Of, OfRequest, Set
  <2>3. CASE ins[k] \in {Segfault, Later("sendCallStateChanged")}
    <3>1. ins[k].op \in {"segfault", "later"}
      BY <2>3 DEF Segfault, Later
    <3> QED
      BY <1>1, <2>3, <3>1 DEF Of, OfRequest, GetsCalls, Set, Radio, Initializing, At, Call
  <2> QED
    BY <2>1, <2>2, <2>3 DEF Plainly
<1> QED
  BY <1>1, <1>2 DEF Good, Plainly

\* One completion; two; nothing but a completion that failed or succeeded.
LEMMA OnePlain ==
    ASSUME NEW request, NEW d, Marshals(request, d)
    PROVE  Plainly(request, <<d>>)
<1>1. d.op = "complete"
  BY DEF Marshals
<1> QED
  BY <1>1, Tuples DEF Plainly, Answering

LEMMA OneMore ==
    ASSUME NEW request, NEW i, Handles(request, i), ~GetsCalls(i)
    PROVE  Plainly(request, <<i>>)
<1>1. Answering(i)
  BY HandlesIs DEF Answering
<1> QED
  BY <1>1, Tuples DEF Plainly

LEMMA PlainEnds ==
    ASSUME NEW request
    PROVE  /\ Plainly(request, <<Succeeds>>) /\ Plainly(request, <<Fails>>)
           /\ Plainly(request, <<Done(RIL_E_PASSWORD_INCORRECT, Null, 0)>>)
           /\ Plainly(request, <<Succeeds, Fails>>) /\ Plainly(request, <<Fails, Fails>>)
           /\ Plainly(request, <<Segfault>>)
<1>1. /\ Marshals(request, Succeeds) /\ Marshals(request, Fails)
      /\ Marshals(request, Done(RIL_E_PASSWORD_INCORRECT, Null, 0))
  BY NullFrame, Consts DEF Succeeds, Fails
<1>2. Succeeds.op = "complete" /\ Fails.op = "complete" /\ Segfault.op = "segfault"
  BY DEF Succeeds, Fails, Done, Segfault
<1> QED
  BY <1>1, <1>2, OnePlain, Tuples DEF Plainly, Answering

\* The handlers that look at no line.
LEMMA Lineless ==
    ASSUME NEW t, NEW fn, NEW m, NEW request, NEW o \in Outcomes(t, fn, m)
    PROVE  /\ Plainly(request, Ignored(o)) /\ Plainly(request, requestDial(o))
           /\ Plainly(request, requestHangup(o))
           /\ Plainly(request, DeleteSmsOnSim(o)) /\ Plainly(request, requestWriteSmsToSim(o))
           /\ Plainly(request, requestSMSAcknowledge(m, o))
           /\ Plainly(request, requestEnterSimPin(m, o))
           /\ Plainly("SET_NETWORK_SELECTION_AUTOMATIC", SetNetworkSelectionAutomatic(o))
<1>1. o # Start
  BY OutcomeIs, OutcomeFields
<1>2. Plainly("SET_NETWORK_SELECTION_AUTOMATIC", <<>>)
  BY Tuples DEF Plainly
<1> QED
  BY <1>1, <1>2, PlainEnds DEF Ignored, requestDial, requestHangup, DeleteSmsOnSim,
     requestWriteSmsToSim, requestSMSAcknowledge, requestEnterSimPin, SetNetworkSelectionAutomatic

\* A completion with a payload.
LEMMA AnswersOnce ==
    ASSUME NEW request, NEW response, NEW len, response # Null,
           \E out \in Seq(Values) : responseFunction(request, response, len) = Writes(out)
    PROVE  Plainly(request, <<Done(RIL_E_SUCCESS, response, len)>>)
  BY Framed, OnePlain

LEMMA TuplesNotNull ==
    /\ \A a \in Values : <<a>> # Null /\ \A b \in Values : <<a, b>> # Null
    /\ \A a, b, c \in Values : <<a, b, c>> # Null /\ <<<<a, b, c>>>> # Null
<1>1. ASSUME NEW a \in Values PROVE <<a>> # Null
  <2>1. <<a>> \in Seq(Values)
    OBVIOUS
  <2> QED
    BY <2>1, Consts
<1>2. ASSUME NEW a \in Values, NEW b \in Values PROVE <<a, b>> # Null
  <2>1. <<a, b>> \in Seq(Values)
    OBVIOUS
  <2> QED
    BY <2>1, Consts
<1>3. ASSUME NEW a \in Values, NEW b \in Values, NEW c \in Values PROVE <<a, b, c>> # Null /\ <<<<a, b, c>>>> # Null
  <2>1. <<a, b, c>> \in Seq(Values)
    OBVIOUS
  <2>2. <<<<a, b, c>>>> \in Seq(Seq(Values))
    BY <2>1
  <2> QED
    BY <2>1, <2>2, Consts
<1> QED
  BY <1>1, <1>2, <1>3

\* The handlers that parse lines.
LEMMA NumberPlain ==
    ASSUME NEW t, NEW m, NEW o \in Outcomes(t, "GetNumber", m),
           NEW request \in {"GET_IMSI", "GET_IMEI", "CANCEL_USSD"}
    PROVE  Plainly(request, GetNumber(o))
<1>1. CASE Failed(o)
  BY <1>1, OutcomeIs, OutcomeFields, PlainEnds DEF GetNumber
<1>2. CASE ~Failed(o)
  <2>1. o = Gives(<<7>>)
    BY <1>2, OutcomeIs, OutcomeFields DEF Lines
  <2>2. GetNumber(o) = <<Done(RIL_E_SUCCESS, <<7>>, ElementSize)>>
    BY <1>2, <2>1, OutcomeFields DEF GetNumber
  <2>3. <<7>> # Null /\ <<7>> \in Seq(Values) /\ <<>> \in Seq(Values)
    BY TuplesNotNull DEF Values
  <2>4. responseFunction(request, <<7>>, ElementSize) \in {Writes(<<7>>), Writes(<<>>)}
    BY <2>3, ResponseOf DEF responseString
  <2> QED
    BY <2>2, <2>3, <2>4, AnswersOnce
<1> QED
  BY <1>1, <1>2

LEMMA SmsPlain ==
    ASSUME NEW t, NEW m, NEW o \in Outcomes(t, "requestSendSMS", m)
    PROVE  Plainly("SEND_SMS", requestSendSMS(o))
<1> DEFINE response == <<<<0, Null, 0>>>>
<1>1. CASE Failed(o)
  BY <1>1, OutcomeIs, OutcomeFields, PlainEnds DEF requestSendSMS
<1>2. CASE ~Failed(o)
  <2>1. requestSendSMS(o) = <<Done(RIL_E_SUCCESS, response, ElementSize)>>
    BY <1>2, OutcomeIs, OutcomeFields DEF requestSendSMS
  <2>2. response # Null /\ response[1] \in Seq(Values)
    <3>1. 0 \in Values /\ Null \in Values
      BY DEF Values
    <3>2. response # Null
      BY <3>1, TuplesNotNull
    <3>3. response[1] = <<0, Null, 0>> /\ <<0, Null, 0>> \in Seq(Values)
      BY <3>1
    <3> QED
      BY <3>2, <3>3
  <2> HIDE DEF response
  <2>3. responseFunction("SEND_SMS", response, ElementSize) = Writes(response[1])
    BY <2>2, ResponseOf, OneStruct
  <2> QED
    BY <2>1, <2>2, <2>3, AnswersOnce
<1> QED
  BY <1>1, <1>2

\* A command that fails, or one line of it that does not parse.
LEMMA ParsesOr ==
    ASSUME NEW t, NEW fn, NEW m, NEW o \in Outcomes(t, fn, m), ~Failed(o)
    PROVE  \E lines \in Lines(fn, m) : o = Gives(lines) /\ o.lines = lines
  BY OutcomeIs, OutcomeFields

LEMMA SimIoPlain ==
    ASSUME NEW t, NEW m, NEW o \in Outcomes(t, "requestSIM_IO", m)
    PROVE  Plainly("SIM_IO", requestSIM_IO(o))
<1>1. CASE Failed(o) \/ Malformed(o)
  BY <1>1, OutcomeIs, OutcomeFields, PlainEnds DEF requestSIM_IO
<1>2. CASE ~Failed(o) /\ ~Malformed(o)
  <2>1. o # Start
    BY OutcomeIs, OutcomeFields
  <2>2. o.lines \in {<<<<144, 0>>>>, <<<<144, 0, 7>>>>, <<Null>>}
    BY <1>2, ParsesOr DEF Lines
  <2>3. o.lines # <<Null>>
    BY <1>2 DEF Malformed
  <2> DEFINE line == o.lines[1]
             response == <<<<line[1], line[2], IF Len(line) > 2 THEN line[3] ELSE Null>>>>
  <2>4. line \in {<<144, 0>>, <<144, 0, 7>>}
    BY <2>2, <2>3
  <2>5. response \in {<<<<144, 0, Null>>>>, <<<<144, 0, 7>>>>}
    BY <2>4
  <2>6. requestSIM_IO(o) = <<Done(RIL_E_SUCCESS, response, ElementSize)>>
    BY <1>2, <2>1 DEF requestSIM_IO
  <2> HIDE DEF response
  <2>7. response # Null /\ response[1] \in Seq(Values)
    <3>1. Null \in Values /\ 144 \in Values /\ 0 \in Values /\ 7 \in Values
      BY DEF Values
    <3>2. ASSUME NEW a \in Values, response = <<<<144, 0, a>>>>
          PROVE  response # Null /\ response[1] \in Seq(Values)
      <4>1. response[1] = <<144, 0, a>>
        BY <3>2
      <4>2. <<144, 0, a>> \in Seq(Values)
        BY <3>1
      <4> QED
        BY <3>1, <3>2, <4>1, <4>2, TuplesNotNull
    <3> QED
      BY <2>5, <3>1, <3>2
  <2>8. responseFunction("SIM_IO", response, ElementSize) = Writes(response[1])
    BY <2>7, ResponseOf, OneStruct
  <2> QED
    BY <2>6, <2>7, <2>8, AnswersOnce
<1> QED
  BY <1>1, <1>2

LEMMA SignalPlain ==
    ASSUME NEW t, NEW m, NEW o \in Outcomes(t, "requestSignalStrength", m)
    PROVE  Plainly("SIGNAL_STRENGTH", requestSignalStrength(o))
<1>1. CASE Failed(o) \/ Malformed(o)
  BY <1>1, OutcomeIs, OutcomeFields, PlainEnds DEF requestSignalStrength
<1>2. CASE ~Failed(o) /\ ~Malformed(o)
  <2>1. o # Start
    BY OutcomeIs, OutcomeFields
  <2>2. o.lines \in {<<<<9, 99>>>>, <<Null>>} /\ o.lines # <<Null>>
    BY <1>2, ParsesOr DEF Lines, Malformed
  <2> DEFINE response == o.lines[1]
             out == [i \in 1..7 |-> IF i <= 2 THEN response[i] ELSE 0]
  <2>3. response = <<9, 99>>
    BY <2>2
  <2>4. requestSignalStrength(o) = <<Done(RIL_E_SUCCESS, response, 2 * ElementSize)>>
    BY <1>2, <2>1 DEF requestSignalStrength
  <2> HIDE DEF response
  <2>5. response # Null
    BY <2>3, TuplesNotNull DEF Values
  <2>6. (2 * ElementSize) % ElementSize = 0 /\ (2 * ElementSize) \div ElementSize = 2
    BY Consts
  <2>7. responseRilSignalStrength(response, 2 * ElementSize) = Writes(out)
    BY <2>5, <2>6 DEF responseRilSignalStrength, RIL_SignalStrength
  <2>8. out \in Seq(Values)
    BY <2>3 DEF Values
  <2>9. responseFunction("SIGNAL_STRENGTH", response, 2 * ElementSize) = Writes(out)
    BY <2>7, ResponseOf
  <2> QED
    BY <2>4, <2>5, <2>8, <2>9, AnswersOnce
<1> QED
  BY <1>1, <1>2

\* An array of n values is an answer for the requests whose answer is one.
ArrayRequests == {"REGISTRATION_STATE", "GPRS_REGISTRATION_STATE", "OPERATOR", "SETUP_DATA_CALL",
                  "OEM_HOOK_STRINGS", "QUERY_NETWORK_SELECTION_MODE"}
LEMMA ArrayAnswers ==
    ASSUME NEW request \in ArrayRequests, NEW response \in Seq(Values), NEW len,
           len = ElementSize * Len(response)
    PROVE  Plainly(request, <<Done(RIL_E_SUCCESS, response, len)>>)
<1>1. response # Null
  BY Consts
<1>2. Len(response) \in Nat /\ \A i \in 1..Len(response) : response[i] \in Values
  BY LenProperties, ElementOfSeq
<1>3. \E out \in Seq(Values) : Array(response, len) = Writes(out)
  BY <1>1, <1>2, Arrays
<1>4. responseFunction(request, response, len) = Array(response, len)
  BY ResponseOf DEF ArrayRequests
<1> QED
  BY <1>1, <1>3, <1>4, AnswersOnce

LEMMA SelectionPlain ==
    ASSUME NEW t, NEW m, NEW o \in Outcomes(t, "requestQueryNetworkSelectionMode", m)
    PROVE  Plainly("QUERY_NETWORK_SELECTION_MODE", requestQueryNetworkSelectionMode(o))
<1>1. CASE Failed(o) \/ Malformed(o)
  BY <1>1, OutcomeIs, OutcomeFields, PlainEnds DEF requestQueryNetworkSelectionMode
<1>2. CASE ~Failed(o) /\ ~Malformed(o)
  <2>1. o # Start
    BY OutcomeIs, OutcomeFields
  <2>2. o.lines \in {<<<<7>>>>, <<Null>>} /\ o.lines # <<Null>>
    BY <1>2, ParsesOr DEF Lines, Malformed
  <2>3. o.lines[1] = <<7>>
    BY <2>2
  <2>4. requestQueryNetworkSelectionMode(o) = <<Done(RIL_E_SUCCESS, <<7>>, ElementSize)>>
    BY <1>2, <2>1, <2>3 DEF requestQueryNetworkSelectionMode
  <2>5. <<7>> \in Seq(Values) /\ ElementSize = ElementSize * Len(<<7>>)
    BY Consts DEF Values
  <2> QED
    BY <2>4, <2>5, ArrayAnswers DEF ArrayRequests
<1> QED
  BY <1>1, <1>2

LEMMA RegistrationPlain ==
    ASSUME NEW t, NEW m, NEW o \in Outcomes(t, "requestRegistrationState", m),
           NEW request \in {"REGISTRATION_STATE", "GPRS_REGISTRATION_STATE"}
    PROVE  Plainly(request, requestRegistrationState(o))
<1>0. o # Start
  BY OutcomeIs, OutcomeFields
<1>1. CASE Failed(o) \/ Malformed(o)
  BY <1>0, <1>1, PlainEnds DEF requestRegistrationState, Failed
<1>2. CASE ~Failed(o) /\ ~Malformed(o)
  <2>2. /\ o.lines \in {<<<<1>>>>, <<<<2, 1>>>>, <<<<1, 10, 11>>>>, <<<<2, 1, 10, 11>>>>,
                        <<<<2, 1, 10, 11, 3>>>>, <<<<2, 1, 10, 11, 3, 4>>>>, <<Null>>}
        /\ o.lines # <<Null>>
    BY <1>2, ParsesOr DEF Lines, Malformed
  <2> DEFINE line == o.lines[1]
             response == registration(line)
  <2>3. line \in {<<1>>, <<2, 1>>, <<1, 10, 11>>, <<2, 1, 10, 11>>, <<2, 1, 10, 11, 3>>,
                  <<2, 1, 10, 11, 3, 4>>}
    BY <2>2
  <2>4. requestRegistrationState(o) =
           IF Len(line) > 5 THEN <<Fails>>
           ELSE <<Done(RIL_E_SUCCESS, response, ElementSize * Len(response))>>
    BY <1>0, <1>2 DEF requestRegistrationState, Failed
  <2> HIDE DEF line
  <2>5. Len(line) \in 1..6 /\ \A i \in 1..Len(line) : line[i] \in Values
    BY <2>3 DEF Values
  <2>6. line \in Seq(Values)
    <3>1. <<1>> \in Seq(Values) /\ <<2, 1>> \in Seq(Values) /\ <<1, 10, 11>> \in Seq(Values)
      BY DEF Values
    <3>2. <<2, 1, 10, 11>> \in Seq(Values) /\ <<2, 1, 10, 11, 3>> \in Seq(Values)
      BY DEF Values
    <3>3. <<2, 1, 10, 11, 3, 4>> \in Seq(Values)
      BY DEF Values
    <3> HIDE DEF line
    <3> QED
      BY <2>3, <3>1, <3>2, <3>3
  <2>7. ASSUME Len(line) <= 5 PROVE response \in Seq(Values)
    <3>1. CASE Len(line) = 1
      BY <2>5, <3>1 DEF registration, Values
    <3>2. CASE Len(line) = 2
      BY <2>5, <3>2 DEF registration, Values
    <3>3. CASE Len(line) = 3
      BY <2>6, <3>3 DEF registration
    <3>4. CASE Len(line) \in {4, 5}
      <4>1. response = Tail(line)
        BY <3>4 DEF registration
      <4>2. line # <<>>
        BY <3>4
      <4> QED
        BY <2>6, <4>1, <4>2, HeadTailProperties
    <3>5. Len(line) = 1 \/ Len(line) = 2 \/ Len(line) = 3 \/ Len(line) \in {4, 5}
      <4> HIDE DEF response
      <4>1. Len(line) \in 1..6
        BY <2>5
      <4> QED
        BY <2>7, <4>1
    <3> HIDE DEF response
    <3> QED
      BY <3>1, <3>2, <3>3, <3>4, <3>5
  <2> HIDE DEF response
  <2> QED
    BY <2>4, <2>5, <2>7, ArrayAnswers, PlainEnds DEF ArrayRequests
<1> QED
  BY <1>1, <1>2

LEMMA OperatorPlain ==
    ASSUME NEW t, NEW m, NEW o \in Outcomes(t, "requestOperator", m)
    PROVE  Plainly("OPERATOR", requestOperator(o))
<1>0. o # Start
  BY OutcomeIs, OutcomeFields
<1>1. CASE o.err \/ Malformed(o) \/ Len(o.lines) # 3
  BY <1>0, <1>1, PlainEnds DEF requestOperator
<1>2. CASE ~(o.err \/ Malformed(o) \/ Len(o.lines) # 3)
  <2> DEFINE response == [i \in 1..3 |-> IF o.lines[i] = 0 THEN Null ELSE o.lines[i]]
  <2>1. requestOperator(o) = <<Done(RIL_E_SUCCESS, response, 3 * ElementSize)>>
    BY <1>0, <1>2 DEF requestOperator
  <2>2. ~Failed(o)
    <3>1. o # Lost
      BY <1>2, OutcomeFields
    <3>2. ASSUME NEW cme, o = Refuses(cme) PROVE FALSE
      <4>1. o.lines = <<>>
        BY <3>2 DEF Refuses
      <4> QED
        BY <1>2, <4>1
    <3> QED
      BY <3>1, <3>2, OutcomeIs, OutcomeFields
  <2>3. o.lines \in {<<5, 6, 7>>, <<0, 0, 0>>, <<0>>, <<5, Null, 7>>}
    BY <2>2, ParsesOr DEF Lines
  <2>4. \A i \in 1..3 : o.lines[i] \in Values
    BY <1>2, <2>3 DEF Values
  <2>5. response \in Seq(Values) /\ Len(response) = 3
    BY <2>4 DEF Values
  <2> HIDE DEF response
  <2>6. 3 * ElementSize = ElementSize * Len(response)
    BY <2>5, Consts
  <2> QED
    BY <2>1, <2>5, <2>6, ArrayAnswers DEF ArrayRequests
<1> QED
  BY <1>1, <1>2

LEMMA SetupPlain ==
    ASSUME NEW t, NEW m, NEW o \in Outcomes(t, "requestSetupDataCall", m)
    PROVE  Plainly("SETUP_DATA_CALL", requestSetupDataCall(m, o))
<1>0. o # Start
  BY OutcomeIs, OutcomeFields
<1>1. Plainly("SETUP_DATA_CALL", <<At("requestSetupDataCall", "ATD*99")>>)
  <2> DEFINE i == At("requestSetupDataCall", "ATD*99")
  <2>1. i.op = "at" /\ i.fn = "requestSetupDataCall" /\ i.memo = "ATD*99"
    BY DEF At
  <2>2. Handles("SETUP_DATA_CALL", i) /\ ~GetsCalls(i)
    BY <2>1 DEF Handles, GetsCalls
  <2> QED
    BY <2>2, OneMore
<1>2. Plainly("SETUP_DATA_CALL", <<Done(RIL_E_SUCCESS, <<1, 2>>, 2 * ElementSize)>>)
  <2>1. <<1, 2>> \in Seq(Values) /\ 2 * ElementSize = ElementSize * Len(<<1, 2>>)
    BY Consts DEF Values
  <2> QED
    BY <2>1, ArrayAnswers DEF ArrayRequests
<1> QED
  BY <1>0, <1>1, <1>2, PlainEnds DEF requestSetupDataCall

\* A set of positions has a last one.
LEMMA LastOf ==
    ASSUME NEW n \in Nat, NEW S, S \subseteq 1..n, S # {}
    PROVE  \E k \in S : \A j \in S : j <= k
<1> DEFINE T == {d \in Nat : n - d \in S}
<1>1. T \subseteq Nat /\ T # {}
  <2>1. PICK j \in S : TRUE
    OBVIOUS
  <2>2. n - j \in Nat /\ n - (n - j) = j
    BY <2>1
  <2>3. n - j \in T
    BY <2>2
  <2> QED
    BY <2>3
<1> HIDE DEF T
<1>2. PICK x \in T : \A y \in T : ~ (<<y, x>> \in Less)
  BY <1>1, LessWF, WFMin
<1>3. \A y \in T : ~(y < x)
  BY <1>1, <1>2 DEF Less
<1>4. n - x \in S
  BY DEF T
<1>5. ASSUME NEW j \in S PROVE j <= n - x
  <2>1. n - j \in T
    <3>1. n - j \in Nat /\ n - (n - j) = j
      OBVIOUS
    <3> QED
      BY <3>1 DEF T
  <2> QED
    BY <1>1, <1>3, <2>1
<1> QED
  BY <1>4, <1>5

LEMMA IntStructs ==
    ASSUME NEW response \in Seq(Seq(Int))
    PROVE  response # Null /\ response \in Seq(Seq(Values))
<1>1. \A s \in Seq(Int) : s \in Seq(Values)
  BY SeqMonotonic DEF Values
<1>2. Seq(Int) \subseteq Seq(Values)
  BY <1>1
<1>3. response \in Seq(Seq(Values))
  BY <1>2, SeqMonotonic
<1> QED
  BY <1>3, Consts

LEMMA FilledSeq ==
    ASSUME NEW contexts \in Seq(Seq(Int)),
           NEW lines \in {<<>>, <<<<1, 5, 6, 7>>>>, <<<<3, 5, 6, 7>>, <<2, 5, 6, 7>>>>}
    PROVE  Filled(contexts, lines) \in Seq(Seq(Int))
<1>1. /\ Len(contexts) \in Nat /\ DOMAIN contexts = 1..Len(contexts)
      /\ \A i \in DOMAIN contexts : contexts[i] \in Seq(Int)
  BY LenProperties, ElementOfSeq
<1>2. DOMAIN lines \subseteq 1..2
  OBVIOUS
<1>3. \A k \in DOMAIN lines : lines[k] \in Seq(Int) /\ lines[k] # <<>>
  <2>1. ASSUME NEW a \in Int PROVE <<a, 5, 6, 7>> \in Seq(Int) /\ <<a, 5, 6, 7>> # <<>>
    OBVIOUS
  <2>2. CASE lines = <<>>
    BY <2>2
  <2>3. CASE lines = <<<<1, 5, 6, 7>>>>
    <3>1. \A k \in DOMAIN lines : lines[k] = <<1, 5, 6, 7>>
      BY <2>3
    <3>2. <<1, 5, 6, 7>> \in Seq(Int) /\ <<1, 5, 6, 7>> # <<>>
      BY <2>1
    <3> QED
      BY <3>1, <3>2
  <2>4. CASE lines = <<<<3, 5, 6, 7>>, <<2, 5, 6, 7>>>>
    <3>1. \A k \in DOMAIN lines : lines[k] = <<3, 5, 6, 7>> \/ lines[k] = <<2, 5, 6, 7>>
      BY <2>4
    <3>2. /\ <<3, 5, 6, 7>> \in Seq(Int) /\ <<3, 5, 6, 7>> # <<>>
          /\ <<2, 5, 6, 7>> \in Seq(Int) /\ <<2, 5, 6, 7>> # <<>>
      BY <2>1
    <3> QED
      BY <3>1, <3>2
  <2> QED
    BY <2>2, <2>3, <2>4
<1> DEFINE of(i) == {k \in DOMAIN lines : lines[k][1] = contexts[i][1]}
           rest(i) == IF of(i) = {} THEN <<0, 0, 0>>
                      ELSE Tail(lines[CHOOSE k \in of(i) : \A j \in of(i) : j <= k])
<1>4. ASSUME NEW i \in 1..Len(contexts) PROVE contexts[i] \o rest(i) \in Seq(Int)
  <2>1. rest(i) \in Seq(Int)
    <3>1. CASE of(i) = {}
      BY <3>1
    <3>2. CASE of(i) # {}
      <4> DEFINE O == of(i)
                 last == CHOOSE k \in O : \A j \in O : j <= k
      <4>1. O \subseteq 1..2 /\ O \subseteq DOMAIN lines
        BY <1>2
      <4> HIDE DEF O
      <4>2. \E k \in O : \A j \in O : j <= k
        BY <3>2, <4>1, LastOf DEF O
      <4>3. last \in O
        BY <4>2
      <4>4. last \in DOMAIN lines
        BY <4>1, <4>3
      <4>5. rest(i) = Tail(lines[last])
        BY <3>2 DEF O
      <4> HIDE DEF last, rest
      <4>6. lines[last] \in Seq(Int) /\ lines[last] # <<>>
        BY <1>3, <4>4
      <4> QED
        BY <4>5, <4>6, HeadTailProperties
    <3> QED
      BY <3>1, <3>2
  <2> HIDE DEF rest
  <2> QED
    BY <1>1, <2>1, ConcatProperties
<1>5. Filled(contexts, lines) = [i \in 1..Len(contexts) |-> contexts[i] \o rest(i)]
  BY <1>1 DEF Filled
<1> HIDE DEF rest
<1> QED
  BY <1>1, <1>4, <1>5, IsASeq

\* The list of data calls, asked for by a request or by a callback.
LEMMA ListAfter ==
    ASSUME NEW t, NEW s, NEW contexts, contexts = Null \/ contexts \in Seq(Seq(Int)),
           NEW o \in Outcomes(t, "requestOrSendDataCallList", [t |-> s, contexts |-> contexts])
    PROVE  LET ins == requestOrSendDataCallList(s, contexts, o)
           IN  \/ ins = SendDataCallList(s, TRUE, Null)
               \/ \E c \in Seq(Seq(Int)) : ins = <<ListOf(s, c)>>
               \/ \E response \in Seq(Seq(Int)) : ins = SendDataCallList(s, FALSE, response)
<1>0. o # Start
  BY OutcomeIs, OutcomeFields
<1>1. CASE Failed(o) \/ Malformed(o)
  BY <1>0, <1>1 DEF requestOrSendDataCallList
<1>2. CASE ~Failed(o) /\ ~Malformed(o) /\ contexts = Null
  <2>1. o.lines \in {<<>>, <<<<1, 1>>>>, <<<<1, 0>>, <<2, 1>>>>, <<Null>>} /\ o.lines # <<Null>>
    BY <1>2, ParsesOr DEF Lines, Malformed
  <2>2. /\ <<>> \in Seq(Seq(Int)) /\ <<<<1, 1>>>> \in Seq(Seq(Int))
        /\ <<<<1, 0>>, <<2, 1>>>> \in Seq(Seq(Int))
    <3>1. <<1, 1>> \in Seq(Int) /\ <<1, 0>> \in Seq(Int) /\ <<2, 1>> \in Seq(Int)
      OBVIOUS
    <3> QED
      BY <3>1
  <2>3. o.lines \in Seq(Seq(Int))
    BY <2>1, <2>2
  <2>4. requestOrSendDataCallList(s, contexts, o) = <<ListOf(s, o.lines)>>
    BY <1>0, <1>2 DEF requestOrSendDataCallList, ListOf
  <2> QED
    BY <2>3, <2>4
<1>3. CASE ~Failed(o) /\ ~Malformed(o) /\ contexts # Null
  <2>1. o.lines \in {<<>>, <<<<1, 5, 6, 7>>>>, <<<<3, 5, 6, 7>>, <<2, 5, 6, 7>>>>}
    <3>1. o.lines \in {<<>>, <<<<1, 5, 6, 7>>>>, <<<<3, 5, 6, 7>>, <<2, 5, 6, 7>>>>, <<Null>>}
      BY <1>3, ParsesOr DEF Lines
    <3>2. o.lines # <<Null>>
      BY <1>3 DEF Malformed
    <3> QED
      BY <3>1, <3>2
  <2>2. Filled(contexts, o.lines) \in Seq(Seq(Int))
    BY <1>3, <2>1, FilledSeq
  <2>3. requestOrSendDataCallList(s, contexts, o)
          = SendDataCallList(s, FALSE, Filled(contexts, o.lines))
    BY <1>0, <1>3 DEF requestOrSendDataCallList
  <2> QED
    BY <2>2, <2>3
<1> QED
  BY <1>1, <1>2, <1>3

LEMMA ListFields ==
    ASSUME NEW s, NEW c
    PROVE  /\ ListOf(s, c).op = "at" /\ ListOf(s, c).fn = "requestOrSendDataCallList"
           /\ ListOf(s, c).memo.t = s /\ ListOf(s, c).memo.contexts = c
           /\ (c = Null \/ c \in Seq(Seq(Int))) => IsList(ListOf(s, c), s)
  BY DEF ListOf, At, IsList

LEMMA ListPlain ==
    ASSUME NEW t, NEW contexts, contexts = Null \/ contexts \in Seq(Seq(Int)),
           NEW o \in Outcomes(t, "requestOrSendDataCallList", [t |-> "request", contexts |-> contexts])
    PROVE  Plainly("DATA_CALL_LIST", requestOrSendDataCallList("request", contexts, o))
<1> DEFINE ins == requestOrSendDataCallList("request", contexts, o)
<1>1. CASE ins = SendDataCallList("request", TRUE, Null)
  BY <1>1, PlainEnds DEF SendDataCallList
<1>2. ASSUME NEW c \in Seq(Seq(Int)), ins = <<ListOf("request", c)>>
      PROVE  Plainly("DATA_CALL_LIST", ins)
  <2> HIDE DEF ins
  <2>1. Handles("DATA_CALL_LIST", ListOf("request", c)) /\ ~GetsCalls(ListOf("request", c))
    BY ListFields DEF Handles, GetsCalls, ListOf, At
  <2> QED
    BY <1>2, <2>1, OneMore
<1>3. ASSUME NEW response \in Seq(Seq(Int)), ins = SendDataCallList("request", FALSE, response)
      PROVE  Plainly("DATA_CALL_LIST", ins)
  <2> HIDE DEF ins
  <2>1. ins = <<Done(RIL_E_SUCCESS, response, ElementSize * Len(response))>>
    BY <1>3 DEF SendDataCallList
  <2>2. \E out \in Seq(Values) :
          responseFunction("DATA_CALL_LIST", response, ElementSize * Len(response)) = Writes(out)
    BY IntStructs, Structs, ResponseOf
  <2> QED
    BY <2>1, <2>2, IntStructs, AnswersOnce
<1> HIDE DEF ins
<1> QED
  BY <1>1, <1>2, <1>3, ListAfter DEF ins

\* The calls.
LEMMA CallLines ==
    ASSUME NEW t, NEW m, NEW o \in Outcomes(t, "requestGetCurrentCalls", m), ~Failed(o)
    PROVE  /\ ValidCalls(o) \in Seq(Int \X Int) /\ ValidCalls(o) \in Seq(Seq(Int))
           /\ Ringing(ValidCalls(o)) \in Int
<1> DEFINE S == {Null} \union (Int \X Int)
           valid == ValidCalls(o)
<1>1. o.lines \in Seq(S)
  <2>1. o.lines \in {<<>>, <<<<1, 4>>>>, <<<<1, 0>>>>, <<<<2, 0>>, <<1, 5>>>>,
                     <<Null, <<1, 0>>>>, <<<<1, 6>>>>}
    BY ParsesOr DEF Lines, INCOMING, ACTIVE, WAITING
  <2>2. <<1, 4>> \in S /\ <<1, 0>> \in S /\ <<2, 0>> \in S /\ <<1, 5>> \in S /\ <<1, 6>> \in S /\ Null \in S
    OBVIOUS
  <2> HIDE DEF S
  <2>3. /\ <<>> \in Seq(S) /\ <<<<1, 4>>>> \in Seq(S) /\ <<<<1, 0>>>> \in Seq(S)
        /\ <<<<2, 0>>, <<1, 5>>>> \in Seq(S) /\ <<Null, <<1, 0>>>> \in Seq(S) /\ <<<<1, 6>>>> \in Seq(S)
    BY <2>2
  <2> QED
    BY <2>1, <2>3
<1>2. valid \in Seq({line \in S : callFromCLCCLine(line)})
  BY <1>1, ValidCallsSeq
<1>3. {line \in S : callFromCLCCLine(line)} \subseteq Int \X Int
  BY DEF callFromCLCCLine
<1>4. valid \in Seq(Int \X Int)
  BY <1>2, <1>3, SeqMonotonic
<1>5. Int \X Int \subseteq Seq(Int)
  <2>1. ASSUME NEW a \in Int, NEW b \in Int PROVE <<a, b>> \in Seq(Int)
    OBVIOUS
  <2>2. \A x \in Int \X Int : \E a, b \in Int : x = <<a, b>>
    OBVIOUS
  <2> QED
    BY <2>1, <2>2
<1>6. valid \in Seq(Seq(Int))
  BY <1>4, <1>5, SeqMonotonic
<1> HIDE DEF valid, S
<1>7. Ringing(valid) \in Int
  <2> DEFINE rings == {i \in DOMAIN valid : valid[i][2] \in {INCOMING, WAITING}}
             last == CHOOSE i \in rings : \A j \in rings : j <= i
  <2>1. CASE rings = {}
    BY <2>1 DEF Ringing
  <2>2. CASE rings # {}
    <3>1. /\ Len(valid) \in Nat /\ DOMAIN valid = 1..Len(valid)
          /\ \A i \in DOMAIN valid : valid[i] \in Int \X Int
      BY <1>4, LenProperties, ElementOfSeq
    <3>2. rings \subseteq 1..Len(valid)
      BY <3>1
    <3>3. Ringing(valid) = valid[last][1]
      BY <2>2 DEF Ringing
    <3> HIDE DEF rings
    <3>4. \E i \in rings : \A j \in rings : j <= i
      BY <2>2, <3>1, <3>2, LastOf
    <3>5. last \in rings
      BY <3>4
    <3> HIDE DEF last
    <3>6. valid[last] \in Int \X Int
      BY <3>1, <3>2, <3>5
    <3> QED
      BY <3>3, <3>6
  <2> QED
    BY <2>1, <2>2
<1> QED
  BY <1>4, <1>6, <1>7 DEF valid

LEMMA CallsPlain ==
    ASSUME NEW t, NEW m, NEW o \in Outcomes(t, "requestGetCurrentCalls", m)
    PROVE  Plainly("GET_CURRENT_CALLS", requestGetCurrentCalls(m, o))
<1>0. o # Start
  BY OutcomeIs, OutcomeFields
<1> DEFINE valid == ValidCalls(o)
           done == Done(RIL_E_SUCCESS, valid, ElementSize * Len(valid))
           later == Later("sendCallStateChanged")
<1>1. CASE Failed(o) \/ ErroneousAnswer(m, valid)
  BY <1>0, <1>1, PlainEnds DEF requestGetCurrentCalls
<1>2. CASE ~(Failed(o) \/ ErroneousAnswer(m, valid))
  <2>1. requestGetCurrentCalls(m, o) = <<done>> \o IF needRepoll(valid) THEN <<later>> ELSE <<>>
    BY <1>0, <1>2 DEF requestGetCurrentCalls
  <2>2. valid \in Seq(Seq(Int))
    BY <1>2, CallLines
  <2> HIDE DEF valid
  <2>3. \E out \in Seq(Values) :
          responseFunction("GET_CURRENT_CALLS", valid, ElementSize * Len(valid)) = Writes(out)
    BY <2>2, IntStructs, Structs, ResponseOf
  <2>4. Marshals("GET_CURRENT_CALLS", done)
    BY <2>2, <2>3, IntStructs, Framed
  <2>5. done.op = "complete" /\ Answering(done)
    BY DEF Done, Answering
  <2> HIDE DEF done, later
  <2>6. <<done>> \o <<later>> = <<done, later>> /\ <<done>> \o <<>> = <<done>>
    <3>1. <<done>> \in Seq({done, later})
      OBVIOUS
    <3>2. <<later>> \in Seq({done, later}) /\ <<done, later>> \in Seq({done, later})
      OBVIOUS
    <3> DEFINE both == <<done>> \o <<later>>
    <3>3. /\ both \in Seq({done, later}) /\ Len(both) = 1 + 1
          /\ \A i \in 1..(1 + 1) : both[i] = IF i <= 1 THEN <<done>>[i] ELSE <<later>>[i - 1]
      <4>1. Len(<<done>>) = 1 /\ Len(<<later>>) = 1
        OBVIOUS
      <4> QED
        BY <3>1, <3>2, <4>1, ConcatProperties
    <3> HIDE DEF both
    <3>4. both[1] = done /\ both[2] = later
      BY <3>3
    <3>5. both = <<done, later>>
      BY <3>2, <3>3, <3>4, SeqEqual
    <3> QED
      BY <3>1, <3>5, ConcatEmptySeq DEF both
  <2>7. Plainly("GET_CURRENT_CALLS", <<done>>)
    BY <2>4, OnePlain
  <2>8. Plainly("GET_CURRENT_CALLS", <<done, later>>)
    BY <2>4, <2>5, Tuples DEF Plainly, later
  <2> QED
    BY <2>1, <2>6, <2>7, <2>8
<1> QED
  BY <1>1, <1>2

\* The status of the SIM, which pollSIMState acts upon and GET_SIM_STATUS reports.
LEMMA StatusAfter ==
    ASSUME NEW t, NEW m, NEW o \in Outcomes(t, "getSIMStatus", m)
    PROVE  \E status \in SimStatuses : getSIMStatus(m, o) = SimStatusKnown(m, status)
<1>0. o # Start
  BY OutcomeIs, OutcomeFields
<1>1. "NOT_READY" \in SimStatuses /\ "ABSENT" \in SimStatuses
  BY DEF SimStatuses
<1>2. CASE o.err \/ ~o.success
  BY <1>0, <1>1, <1>2 DEF getSIMStatus
<1>3. CASE ~o.err /\ o.success
  <2>1. ~Failed(o)
    BY <1>3 DEF Failed
  <2>2. o.lines \in {<<"READY">>, <<"PIN">>, <<"PUK">>, <<"NETWORK_PERSONALIZATION">>,
                     <<"ABSENT">>, <<Null>>}
    BY <2>1, ParsesOr DEF Lines
  <2>3. CASE Malformed(o)
    BY <1>0, <1>1, <1>3, <2>3 DEF getSIMStatus
  <2>4. CASE ~Malformed(o)
    <3>1. o.lines # <<Null>>
      BY <2>4 DEF Malformed
    <3>2. o.lines[1] \in SimStatuses
      BY <2>2, <3>1 DEF SimStatuses
    <3>3. getSIMStatus(m, o) = SimStatusKnown(m, o.lines[1])
      BY <1>0, <1>3, <2>4 DEF getSIMStatus
    <3> QED
      BY <3>2, <3>3
  <2> QED
    BY <2>3, <2>4
<1> QED
  BY <1>2, <1>3

LEMMA StatusReported ==
    ASSUME NEW status \in SimStatuses
    PROVE  Plainly("GET_SIM_STATUS", SimStatusKnown("getCardStatus", status))
<1> DEFINE card == getCardStatus(status)
           response == <<card>>
           out == card.card \o <<Len(card.applications)>> \o FlattenSeq(card.applications)
<1>1. card.card \in Seq(Values)
  <2>1. <<0, 0, 8, 8>> \in Seq(Values) /\ <<1, 0, 0, 8>> \in Seq(Values)
    BY DEF Values
  <2>2. card.card \in {<<0, 0, 8, 8>>, <<1, 0, 0, 8>>}
    BY DEF getCardStatus, RIL_CARD_MAX_APPS
  <2> HIDE DEF card
  <2> QED
    BY <2>1, <2>2
<1>2. card.applications \in Seq(Seq(Values)) /\ Len(card.applications) \in Nat
  <2>1. CASE status = "ABSENT"
    <3>1. card.applications = <<>>
      BY <2>1 DEF getCardStatus
    <3> QED
      BY <3>1, EmptySeq
  <2>2. CASE status # "ABSENT"
    <3>1. card.applications = <<AppStatus(status)>>
      BY <2>2 DEF getCardStatus
    <3>2. 0..5 \subseteq Values /\ Null \in Values
      BY DEF Values
    <3>3. \A b, c, f, g \in 0..5 : <<1, b, c, Null, Null, f, g, 0>> \in Seq(Values)
      BY <3>2
    <3>4. \E b, c, f, g \in 0..5 : AppStatus(status) = <<1, b, c, Null, Null, f, g, 0>>
      <4>1. /\ AppStatus("NOT_READY") = <<1, 1, 0, Null, Null, 0, 0, 0>>
            /\ AppStatus("READY") = <<1, 5, 2, Null, Null, 0, 0, 0>>
            /\ AppStatus("PIN") = <<1, 2, 0, Null, Null, 0, 1, 0>>
            /\ AppStatus("PUK") = <<1, 3, 0, Null, Null, 0, 4, 0>>
            /\ AppStatus("NETWORK_PERSONALIZATION") = <<1, 4, 3, Null, Null, 0, 1, 0>>
        BY DEF AppStatus
      <4>2. {0, 1, 2, 3, 4, 5} \subseteq 0..5
        OBVIOUS
      <4>3. status \in {"NOT_READY", "READY", "PIN", "PUK", "NETWORK_PERSONALIZATION"}
        BY <2>2 DEF SimStatuses
      <4> QED
        BY <4>1, <4>2, <4>3
    <3>5. AppStatus(status) \in Seq(Values)
      BY <3>3, <3>4
    <3>6. <<AppStatus(status)>> \in Seq(Seq(Values)) /\ Len(<<AppStatus(status)>>) = 1
      BY <3>5
    <3> QED
      BY <3>1, <3>6
  <2> QED
    BY <2>1, <2>2
<1>3. response # Null
  BY CardAssumption
<1> HIDE DEF card
<1>4. <<Len(card.applications)>> \in Seq(Values) /\ FlattenSeq(card.applications) \in Seq(Values)
  BY <1>2, Flattened DEF Values
<1>5. out \in Seq(Values)
  BY <1>1, <1>4, ConcatProperties
<1>6. responseSimStatus(response, ElementSize) = Writes(out)
  BY <1>3, Consts DEF responseSimStatus, BadArray
<1>7. SimStatusKnown("getCardStatus", status) = <<Done(RIL_E_SUCCESS, response, ElementSize)>>
  BY DEF SimStatusKnown, card
<1> HIDE DEF response, out
<1>8. responseFunction("GET_SIM_STATUS", response, ElementSize) = Writes(out)
  BY <1>6, ResponseOf
<1> QED
  BY <1>3, <1>5, <1>7, <1>8, AnswersOnce

LEMMA AfterHandled ==
    ASSUME NEW t, NEW request, NEW i, Handles(request, i), NEW o \in Outcomes(t, i.fn, i.memo)
    PROVE  Plainly(request, AfterAt(i.fn, i.memo, o))
<1>1. CASE i.fn \in {"Ignored", "requestDial", "requestHangup", "DeleteSmsOnSim",
                     "requestWriteSmsToSim", "requestSMSAcknowledge", "requestEnterSimPin"}
  BY <1>1, Lineless DEF AfterAt
<1>2. CASE i.fn = "SetNetworkSelectionAutomatic"
  BY <1>2, Lineless DEF AfterAt, Handles, IsList
<1>3. CASE i.fn = "GetNumber"
  BY <1>3, NumberPlain DEF AfterAt, Handles, IsList
<1>4. CASE i.fn = "requestSendSMS"
  BY <1>4, SmsPlain DEF AfterAt, Handles, IsList
<1>5. CASE i.fn = "requestSIM_IO"
  BY <1>5, SimIoPlain DEF AfterAt, Handles, IsList
<1>6. CASE i.fn = "requestSignalStrength"
  BY <1>6, SignalPlain DEF AfterAt, Handles, IsList
<1>7. CASE i.fn = "requestQueryNetworkSelectionMode"
  BY <1>7, SelectionPlain DEF AfterAt, Handles, IsList
<1>8. CASE i.fn = "requestRegistrationState"
  BY <1>8, RegistrationPlain DEF AfterAt, Handles, IsList
<1>9. CASE i.fn = "requestOperator"
  BY <1>9, OperatorPlain DEF AfterAt, Handles, IsList
<1>10. CASE i.fn = "requestSetupDataCall"
  BY <1>10, SetupPlain DEF AfterAt, Handles, IsList
<1>11. CASE i.fn = "requestOrSendDataCallList"
  <2>1. request = "DATA_CALL_LIST" /\ IsList(i, "request")
    BY <1>11 DEF Handles
  <2>2. /\ i.memo = [t |-> "request", contexts |-> i.memo.contexts] /\ i.memo.t = "request"
        /\ i.memo.contexts = Null \/ i.memo.contexts \in Seq(Seq(Int))
    BY <2>1 DEF IsList, ListOf, At
  <2>3. AfterAt(i.fn, i.memo, o) = requestOrSendDataCallList("request", i.memo.contexts, o)
    BY <1>11, <2>2 DEF AfterAt
  <2>4. o \in Outcomes(t, "requestOrSendDataCallList",
                       [t |-> "request", contexts |-> i.memo.contexts])
    BY <1>11, <2>2
  <2> QED
    BY <2>1, <2>2, <2>3, <2>4, ListPlain
<1>12. CASE i.fn = "requestGetCurrentCalls"
  BY <1>12, CallsPlain DEF AfterAt, Handles, IsList
<1>13. CASE i.fn = "getSIMStatus"
  <2>1. request = "GET_SIM_STATUS" /\ i.memo = "getCardStatus"
    BY <1>13 DEF Handles, IsList
  <2>2. AfterAt(i.fn, i.memo, o) = getSIMStatus("getCardStatus", o)
    BY <1>13, <2>1 DEF AfterAt
  <2> QED
    BY <1>13, <2>1, <2>2, StatusAfter, StatusReported
<1> QED
  BY <1>1, <1>2, <1>3, <1>4, <1>5, <1>6, <1>7, <1>8, <1>9, <1>10, <1>11, <1>12, <1>13
  DEF Handles, IsList

\* The other commands of the command thread.
LEMMA AtIs ==
    ASSUME NEW r \in Requests \union {NoRequest}, NEW i, Of(r, i), i.op = "at"
    PROVE  \/ r \in Requests /\ Handles(r.request, i)
           \/ i = Settings
           \/ i = PollCommand /\ ~PowersOff(r)
           \/ r = NoRequest /\ (i = At("isRadioOn", "initializeCallback") \/ IsList(i, "callback"))
           \/ r.request = "RADIO_POWER" /\ i \in Powering(r.parcel)
<1> USE DEF Polling, Settings, PollCommand, Call, Later, Set, Changed, At
<1>1. CASE r = NoRequest
  <2>1. OfCallback(i) /\ ~PowersOff(r)
    BY <1>1 DEF Of, PowersOff, NoRequest
  <2> QED
    BY <1>1, <2>1 DEF OfCallback, Initializing, IsListEvent, Event
<1>2. CASE r # NoRequest
  <2>1. OfRequest(r, i)
    BY <1>2 DEF Of
  <2>2. ~Marshals(r.request, i) /\ i # Segfault
    BY DEF Marshals, Segfault
  <2> QED
    BY <1>2, <2>1, <2>2 DEF OfRequest
<1> QED
  BY <1>1, <1>2

\* An instruction, by its operation.
LEMMA Ops ==
    /\ \A fn, m : At(fn, m).op = "at" /\ At(fn, m).fn = fn /\ At(fn, m).memo = m
    /\ \A e, x, n : /\ Done(e, x, n).op = "complete" /\ Done(e, x, n).e = e
                    /\ Done(e, x, n).response = x /\ Done(e, x, n).len = n
    /\ \A s : Set(s).op = "set" /\ Set(s).state = s
    /\ \A old, look : Changed(old, look).op = "changed" /\ Changed(old, look).old = old
                        /\ Changed(old, look).look = look
    /\ \A c : Later(c).op = "later" /\ Later(c).callback = c
    /\ \A e, x, n : Event(e, x, n).op = "event"
    /\ \A fn : Call(fn).op = "call" /\ Call(fn).fn = fn
    /\ Closed.op = "closed" /\ Segfault.op = "segfault"
  BY DEF At, Done, Set, Changed, Later, Event, Call, Closed, Segfault

LEMMA RadioIs ==
    ASSUME NEW i
    PROVE  /\ Radio(i) => i.op \in {"call", "at", "set"}
           /\ i.op = "set" /\ Radio(i) => i = Set(SIM_NOT_READY)
           /\ i.op = "call" /\ Radio(i) => i = Call("isRadioOn")
           /\ i.op = "at" /\ Radio(i) => i.fn \in {"isRadioOn", "requestRadioPower"}
           /\ i \in Polling => ~Radio(i)
<1>1. /\ Radio(i) => i.op \in {"call", "at", "set"}
      /\ i.op = "set" /\ Radio(i) => i = Set(SIM_NOT_READY)
      /\ i.op = "call" /\ Radio(i) => i = Call("isRadioOn")
      /\ i.op = "at" /\ Radio(i) => i.fn \in {"isRadioOn", "requestRadioPower"}
  BY Ops DEF Radio, Initializing
<1>2. ASSUME i \in Polling PROVE ~Radio(i)
  <2>1. /\ i.op = "set" => i.state \in {SIM_READY, SIM_LOCKED_OR_ABSENT}
        /\ i.op = "call" => i.fn = "pollSIMState"
        /\ i.op = "at" => i.fn \in {"Settings", "getSIMStatus"}
    BY <1>2, Ops DEF Polling, Settings, PollCommand
  <2>2. Set(SIM_NOT_READY).state \notin {SIM_READY, SIM_LOCKED_OR_ABSENT}
    BY Ops DEF SIM_NOT_READY, SIM_READY, SIM_LOCKED_OR_ABSENT
  <2> QED
    BY <1>1, <2>1, <2>2, Ops
<1> QED
  BY <1>1, <1>2

\* The radio's own instructions.
LEMMA Empty ==
    ASSUME NEW r, NEW i, ~Owes(i), (r # NoRequest /\ r.request # "SET_NETWORK_SELECTION_AUTOMATIC") => ~Answering(i)
    PROVE  Good(r, i, <<>>)
  BY Tuples DEF Good

\* One poll instruction of several.
LEMMA PollOf ==
    ASSUME NEW r \in Requests \union {NoRequest}, NEW i \in Polling,
           PowersOff(r) => i = Settings \/ i.op = "changed"
    PROVE  /\ Of(r, i) /\ ~GetsCalls(i) /\ i # Set(OFF) /\ ~Radio(i) /\ ~Success(i)
           /\ ~Answering(i)
<1>1. /\ i.op \in {"at", "call", "later", "set", "changed"}
      /\ i.op = "at" => i \in {Settings, PollCommand}
      /\ i.op = "set" => i.state \in {SIM_READY, SIM_LOCKED_OR_ABSENT}
  BY Ops DEF Polling, Settings, PollCommand
<1>2. Of(r, i)
  BY DEF Of, OfCallback, OfRequest
<1>3. ~GetsCalls(i) /\ ~Answering(i)
  BY <1>1, Ops DEF GetsCalls, Answering, Settings, PollCommand
<1>4. i # Set(OFF)
  BY <1>1, Ops DEF OFF, SIM_READY, SIM_LOCKED_OR_ABSENT
<1>5. ~Success(i)
  BY <1>1 DEF Success
<1> QED
  BY <1>2, <1>3, <1>4, <1>5, RadioIs

LEMMA OnePoll ==
    ASSUME NEW r \in Requests \union {NoRequest}, NEW i, NEW d \in Polling,
           PowersOff(r) => d = Settings, d.op # "changed", ~Answering(i), Owes(i) => Owes(d)
    PROVE  Good(r, i, <<d>>)
<1>1. Of(r, d) /\ ~GetsCalls(d) /\ d # Set(OFF) /\ ~Radio(d) /\ ~Success(d)
  BY PollOf
<1> QED
  BY <1>1, Tuples DEF Good

\* The poll of the SIM, on any thread.
LEMMA PollAfter ==
    ASSUME NEW t, NEW o \in Outcomes(t, PollCommand.fn, PollCommand.memo)
    PROVE  \E d \in {Later("pollSIMState"), Set(SIM_READY), Set(SIM_LOCKED_OR_ABSENT)} :
              AfterAt(PollCommand.fn, PollCommand.memo, o) = <<d>>
<1>1. PollCommand.fn = "getSIMStatus" /\ PollCommand.memo = "pollSIMState"
  BY Ops DEF PollCommand
<1>2. PICK status \in SimStatuses : getSIMStatus("pollSIMState", o) = SimStatusKnown("pollSIMState", status)
  BY <1>1, StatusAfter
<1>3. AfterAt(PollCommand.fn, PollCommand.memo, o) = getSIMStatus("pollSIMState", o)
  BY <1>1 DEF AfterAt
<1>4. SimStatusKnown("pollSIMState", status) \in
        {<<Later("pollSIMState")>>, <<Set(SIM_READY)>>, <<Set(SIM_LOCKED_OR_ABSENT)>>}
  BY DEF SimStatusKnown
<1> QED
  BY <1>2, <1>3, <1>4

LEMMA PollResults ==
    ASSUME NEW d \in {Later("pollSIMState"), Set(SIM_READY), Set(SIM_LOCKED_OR_ABSENT)}
    PROVE  d \in Polling /\ Owes(d) /\ d.op \in {"later", "set"}
<1>1. Owes(d)
  BY Ops DEF Owes, SIM_NOT_READY, SIM_READY, SIM_LOCKED_OR_ABSENT
<1> QED
  BY <1>1, Ops DEF Polling

LEMMA RadioAt ==
    ASSUME NEW t, NEW caller \in {"initializeCallback", "requestRadioPower"},
           NEW o \in Outcomes(t, "isRadioOn", caller)
    PROVE  AfterAt("isRadioOn", caller, o) \in
             IF caller = "initializeCallback" THEN {<<Set(SIM_NOT_READY)>>, <<>>}
             ELSE {<<Set(SIM_NOT_READY), Succeeds>>, <<Fails>>}
<1>1. o # Start
  BY OutcomeIs, OutcomeFields
<1> QED
  BY <1>1 DEF AfterAt, isRadioOn

\* The completions of a power request.
LEMMA PowerEnds ==
    ASSUME NEW r \in Requests, r.request = "RADIO_POWER", NEW e \in {0, 1, 2, 3, 6}
    PROVE  /\ Of(r, Done(e, Null, 0)) /\ ~GetsCalls(Done(e, Null, 0))
           /\ Done(e, Null, 0) # Set(OFF) /\ ~Radio(Done(e, Null, 0)) /\ Answering(Done(e, Null, 0))
           /\ Done(e, Null, 0).op = "complete"
<1>1. Marshals(r.request, Done(e, Null, 0)) /\ Echoes(r, Done(e, Null, 0))
  BY NullFrame DEF Echoes, OemHooks
<1>2. r # NoRequest
  BY RequestIs
<1>3. Of(r, Done(e, Null, 0))
  BY <1>1, <1>2 DEF Of, OfRequest
<1>4. Done(e, Null, 0).op = "complete"
  BY Ops
<1> HIDE DEF Done
<1> QED
  BY <1>3, <1>4, Ops, RadioIs DEF GetsCalls, Answering

LEMMA DispatchOf ==
    ASSUME NEW p
    PROVE  /\ dispatchFunction("RADIO_POWER", p) = dispatchInts(p)
           /\ dispatchFunction("OEM_HOOK_STRINGS", p) = dispatchStrings(p)
           /\ dispatchFunction("OEM_HOOK_RAW", p) = dispatchRaw(p)
<1> DEFINE others(x) == x \notin VoidRequests \union StringRequests \union CallForwardRequests
<1>1. others("RADIO_POWER") /\ "RADIO_POWER" \in IntsRequests /\ "RADIO_POWER" \notin StringsRequests
  BY DEF VoidRequests, StringRequests, StringsRequests, IntsRequests, CallForwardRequests
<1>2. /\ others("OEM_HOOK_STRINGS") /\ "OEM_HOOK_STRINGS" \in StringsRequests
      /\ "OEM_HOOK_STRINGS" \notin IntsRequests
  BY DEF VoidRequests, StringRequests, StringsRequests, IntsRequests, CallForwardRequests
<1>3. others("OEM_HOOK_RAW") /\ "OEM_HOOK_RAW" \notin StringsRequests \union IntsRequests
  BY DEF VoidRequests, StringRequests, StringsRequests, IntsRequests, CallForwardRequests
<1>4. dispatchFunction("RADIO_POWER", p) = dispatchInts(p)
  BY <1>1 DEF dispatchFunction
<1>5. dispatchFunction("OEM_HOOK_STRINGS", p) = dispatchStrings(p)
  BY <1>2 DEF dispatchFunction
<1>6. dispatchFunction("OEM_HOOK_RAW", p) = dispatchRaw(p)
  BY <1>3 DEF dispatchFunction
<1> QED
  BY <1>4, <1>5, <1>6

\* A power request: its parcel, and the commands it takes.
LEMMA PowerParcel ==
    ASSUME NEW r \in Requests, r.request = "RADIO_POWER"
    PROVE  /\ dispatchFunction(r.request, r.parcel) =
                Calls(ReadMany(r.parcel, 1, r.parcel[1]), r.parcel[1])
           /\ r.parcel[2] \in Nat /\ PowerCommand(r.parcel).memo[1] = r.parcel[2]
           /\ PowerCommand(r.parcel) = At("requestRadioPower", PowerCommand(r.parcel).memo)
<1> DEFINE p == r.parcel
<1>1. /\ p \in Seq(Int) /\ p[1] \in Nat /\ p[2] \in Nat
      /\ dispatchFunction(r.request, p).calls
  BY RequestIs DEF Sendable, IntsRequests
<1>2. dispatchFunction(r.request, p) = dispatchInts(p)
  BY DispatchOf
<1> HIDE DEF p
<1>3. Len(p) \in Nat /\ DOMAIN p = 1..Len(p)
  BY <1>1, LenProperties
<1>4. ~(Len(p) < 1 \/ Read(p, 1) = 0) /\ ~(Len(p) < 1 + p[1])
      /\ dispatchInts(p) = Calls(ReadMany(p, 1, p[1]), p[1])
  BY <1>1, <1>2 DEF dispatchInts, Refused
<1>5. p[1] >= 1 /\ 2 \in DOMAIN p
  <2>1. Read(p, 1) = p[1]
    BY <1>3, <1>4 DEF Read
  <2> QED
    BY <1>1, <1>3, <1>4, <2>1
<1>6. ReadMany(p, 1, p[1])[1] = p[2]
  <2>1. 1 \in 1..p[1]
    BY <1>1, <1>5
  <2> QED
    BY <1>1, <1>5, <2>1 DEF ReadMany, Read
<1>7. PowerCommand(p).memo = ReadMany(p, 1, p[1])
  BY Ops DEF PowerCommand
<1> QED
  BY <1>1, <1>2, <1>4, <1>6, <1>7 DEF p, PowerCommand

LEMMA SettingsAfter ==
    ASSUME NEW o PROVE AfterAt(Settings.fn, Settings.memo, o) = <<>>
  BY Ops DEF AfterAt, Settings

LEMMA NotPolling ==
    /\ Set(OFF) \notin Polling /\ Set(SIM_NOT_READY) \notin Polling /\ Set(UNAVAILABLE) \notin Polling
    /\ Set(OFF) # Set(SIM_NOT_READY)
  BY Ops DEF Polling, Settings, PollCommand, OFF, SIM_NOT_READY, UNAVAILABLE, SIM_READY, SIM_LOCKED_OR_ABSENT

\* A command of onDataCallListChanged.
LEMMA ListCallback ==
    ASSUME NEW i, ~Owes(i), NEW t, NEW contexts, contexts = Null \/ contexts \in Seq(Seq(Int)),
           NEW o \in Outcomes(t, "requestOrSendDataCallList", [t |-> "callback", contexts |-> contexts])
    PROVE  Good(NoRequest, i, requestOrSendDataCallList("callback", contexts, o))
<1> DEFINE r == NoRequest
           ins == requestOrSendDataCallList("callback", contexts, o)
<1>0. r.request # "RADIO_POWER" /\ ~PowersOff(r) /\ \A d : Of(r, d) <=> OfCallback(d)
  BY DEF PowersOff, NoRequest, Of
<1>1. ASSUME NEW d, d.op = "event" \/ (d.op = "at" /\ d.fn = "requestOrSendDataCallList"),
             OfCallback(d)
      PROVE  Good(r, i, <<d>>)
  <2>1. ~GetsCalls(d) /\ d # Set(OFF) /\ ~Radio(d)
    BY <1>1, Ops, RadioIs DEF GetsCalls
  <2> QED
    BY <1>0, <1>1, <2>1, Tuples DEF Good
<1>2. ASSUME NEW response, NEW len, IsListEvent(Event("DATA_CALL_LIST_CHANGED", response, len))
      PROVE  Good(r, i, <<Event("DATA_CALL_LIST_CHANGED", response, len)>>)
  BY <1>1, <1>2, Ops DEF OfCallback
<1>3. CASE ins = SendDataCallList("callback", TRUE, Null)
  <2> HIDE DEF ins
  <2>1. ins = <<Event("DATA_CALL_LIST_CHANGED", Null, 0)>>
    BY <1>3 DEF SendDataCallList
  <2>2. IsListEvent(Event("DATA_CALL_LIST_CHANGED", Null, 0))
    BY DEF IsListEvent, Event
  <2>3. Good(r, i, ins)
    BY <1>2, <2>1, <2>2
  <2> QED
    BY <2>3 DEF ins
<1>4. ASSUME NEW c \in Seq(Seq(Int)), ins = <<ListOf("callback", c)>> PROVE Good(r, i, ins)
  <2> HIDE DEF ins
  <2> QED
    BY <1>1, <1>4, ListFields DEF OfCallback
<1>5. ASSUME NEW response \in Seq(Seq(Int)), ins = SendDataCallList("callback", FALSE, response)
      PROVE  Good(r, i, ins)
  <2> HIDE DEF ins
  <2>1. ins = <<Event("DATA_CALL_LIST_CHANGED", response, ElementSize * Len(response))>>
    BY <1>5 DEF SendDataCallList
  <2>2. IsListEvent(Event("DATA_CALL_LIST_CHANGED", response, ElementSize * Len(response)))
    BY DEF IsListEvent, Event
  <2> QED
    BY <1>2, <2>1, <2>2
<1> HIDE DEF ins
<1> QED
  BY <1>3, <1>4, <1>5, ListAfter DEF ins

\* A command of initializeCallback or onDataCallListChanged.
LEMMA CallbackAt ==
    ASSUME NEW i, NEW t, NEW o \in Outcomes(t, i.fn, i.memo),
           i = At("isRadioOn", "initializeCallback") \/ IsList(i, "callback")
    PROVE  Good(NoRequest, i, AfterAt(i.fn, i.memo, o))
<1> DEFINE r == NoRequest
           ins == AfterAt(i.fn, i.memo, o)
<1>0. r.request # "RADIO_POWER" /\ ~PowersOff(r) /\ \A d : Of(r, d) <=> OfCallback(d)
  BY DEF PowersOff, NoRequest, Of
<1>1. CASE i = At("isRadioOn", "initializeCallback")
  <2>1. i.fn = "isRadioOn" /\ i.memo = "initializeCallback" /\ Radio(i) /\ ~Owes(i)
    BY <1>1, Ops DEF Radio, Initializing, Owes, PollCommand
  <2>2. ins \in {<<Set(SIM_NOT_READY)>>, <<>>}
    BY <2>1, RadioAt
  <2>3. /\ OfCallback(Set(SIM_NOT_READY)) /\ ~GetsCalls(Set(SIM_NOT_READY))
        /\ Set(SIM_NOT_READY) # Set(OFF)
    BY Ops, NotPolling DEF OfCallback, Initializing, GetsCalls
  <2>4. Good(r, i, <<Set(SIM_NOT_READY)>>) /\ Good(r, i, <<>>)
    BY <1>0, <2>1, <2>3, Tuples DEF Good
  <2> HIDE DEF ins
  <2> QED
    BY <2>2, <2>4 DEF ins
<1>2. CASE IsList(i, "callback")
  <2>1. /\ i.fn = "requestOrSendDataCallList" /\ i.op = "at"
        /\ i.memo = [t |-> "callback", contexts |-> i.memo.contexts] /\ i.memo.t = "callback"
        /\ i.memo.contexts = Null \/ i.memo.contexts \in Seq(Seq(Int))
    BY <1>2 DEF IsList, ListOf, At
  <2>2. ~Owes(i)
    BY <2>1, Ops DEF Owes, PollCommand
  <2>3. ins = requestOrSendDataCallList("callback", i.memo.contexts, o)
    BY <2>1 DEF AfterAt
  <2>4. o \in Outcomes(t, "requestOrSendDataCallList",
                       [t |-> "callback", contexts |-> i.memo.contexts])
    BY <2>1
  <2> QED
    BY <2>1, <2>2, <2>3, <2>4, ListCallback
<1> QED
  BY <1>1, <1>2

\* A command of requestRadioPower.
LEMMA PowerAt ==
    ASSUME NEW r \in Requests, r.request = "RADIO_POWER", NEW i \in Powering(r.parcel), i.op = "at",
           NEW t, NEW o \in Outcomes(t, i.fn, i.memo)
    PROVE  Good(r, i, AfterAt(i.fn, i.memo, o))
<1> DEFINE ins == AfterAt(i.fn, i.memo, o)
           again == At("isRadioOn", "requestRadioPower")
<1>0. r # NoRequest /\ r.request # "SET_NETWORK_SELECTION_AUTOMATIC" /\ r.parcel[2] \in Nat
  BY RequestIs, PowerParcel
<1>1. /\ Of(r, Succeeds) /\ Of(r, Fails) /\ ~GetsCalls(Succeeds) /\ ~GetsCalls(Fails)
      /\ Succeeds # Set(OFF) /\ Fails # Set(OFF) /\ ~Radio(Succeeds) /\ ~Radio(Fails)
      /\ Answering(Succeeds) /\ Answering(Fails)
      /\ Succeeds.op = "complete" /\ Fails.op = "complete"
  BY PowerEnds, Consts DEF Succeeds, Fails
<1>2. Fails.e # RIL_E_SUCCESS
  BY Ops, Consts DEF Fails
<1>3. ~Owes(i)
  <2>1. i.fn \in {"requestRadioPower", "isRadioOn"}
    BY Ops DEF Powering, PowerCommand
  <2> QED
    BY <2>1, Ops DEF Owes, PollCommand
<1>4. Good(r, i, <<Fails>>)
  BY <1>0, <1>1, <1>2, <1>3, Tuples DEF Good, Success
<1>5. CASE r.parcel[2] = 0
  <2>1. i = PowerCommand(r.parcel) /\ i.fn = "requestRadioPower" /\ i.memo[1] = 0
    BY <1>5, PowerParcel, Ops DEF Powering
  <2>2. ins \in {<<Fails>>, <<Set(OFF), Succeeds>>}
    BY <2>1, OutcomeIs, OutcomeFields DEF AfterAt, requestRadioPower
  <2>3. /\ Of(r, Set(OFF)) /\ ~GetsCalls(Set(OFF)) /\ ~Radio(Set(OFF)) /\ Set(OFF).op = "set"
    BY <1>0, <1>5, Ops, RadioIs, NotPolling DEF Of, OfRequest, Powering, GetsCalls
  <2>4. Good(r, i, <<Set(OFF), Succeeds>>)
    BY <1>0, <1>1, <1>3, <2>3, Tuples DEF Good
  <2> HIDE DEF ins
  <2> QED
    BY <1>4, <2>2, <2>4 DEF ins
<1>6. CASE r.parcel[2] # 0
  <2> DEFINE set == Set(SIM_NOT_READY)
  <2>1. /\ ~PowersOff(r) /\ Of(r, set) /\ Of(r, again) /\ ~GetsCalls(set) /\ ~GetsCalls(again)
        /\ set # Set(OFF) /\ again # Set(OFF) /\ Answering(again)
        /\ ~Success(again) /\ ~Success(set)
    BY <1>0, <1>6, Ops, NotPolling DEF PowersOff, Of, OfRequest, Powering, GetsCalls, Answering,
       PollCommand, Success
  <2>2. Radio(i)
    <3>1. CASE i = again
      BY <3>1 DEF Radio
    <3>2. CASE i = PowerCommand(r.parcel)
      BY <1>0, <1>6, <3>2, PowerParcel, Ops DEF Radio
    <3> QED
      BY <1>6, <3>1, <3>2, Ops DEF Powering
  <2>3. ins \in {<<Fails>>, <<again>>, <<set, Succeeds>>}
    <3>1. CASE i = again
      BY <3>1, RadioAt, Ops
    <3>2. CASE i = PowerCommand(r.parcel)
      <4>1. i.fn = "requestRadioPower" /\ i.memo[1] # 0
        BY <1>6, <3>2, PowerParcel, Ops
      <4>2. o # Start
        BY OutcomeIs, OutcomeFields
      <4> QED
        BY <4>1, <4>2 DEF AfterAt, requestRadioPower, isRadioOn
    <3> QED
      BY <1>6, <3>1, <3>2, Ops DEF Powering
  <2> HIDE DEF set, again, ins
  <2>4. Good(r, i, <<again>>)
    BY <1>0, <1>3, <2>1, <2>2, Tuples DEF Good
  <2>5. Good(r, i, <<set, Succeeds>>)
    BY <1>0, <1>1, <1>3, <2>1, <2>2, Tuples DEF Good, set
  <2> QED
    BY <1>4, <2>3, <2>4, <2>5 DEF ins
<1> QED
  BY <1>5, <1>6

LEMMA CommandAt ==
    ASSUME NEW r \in Requests \union {NoRequest}, NEW i, Of(r, i), i.op = "at",
           NEW t, NEW o \in Outcomes(t, i.fn, i.memo)
    PROVE  Good(r, i, AfterAt(i.fn, i.memo, o))
<1>1. CASE r \in Requests /\ Handles(r.request, i)
  BY <1>1, AfterHandled, PlainIsGood
<1>2. CASE i = Settings
  <2>1. ~Owes(i) /\ ~Answering(i)
    BY <1>2, Ops DEF Owes, Answering, Settings, PollCommand
  <2> QED
    BY <1>2, <2>1, SettingsAfter, Empty
<1>3. CASE i = PollCommand /\ ~PowersOff(r)
  <2>1. ~Answering(i)
    BY <1>3, Ops DEF Answering, PollCommand
  <2>2. PICK d \in {Later("pollSIMState"), Set(SIM_READY), Set(SIM_LOCKED_OR_ABSENT)} :
              AfterAt(i.fn, i.memo, o) = <<d>>
    BY <1>3, PollAfter
  <2>3. d \in Polling /\ Owes(d) /\ d.op # "changed"
    BY PollResults
  <2> QED
    BY <1>3, <2>1, <2>2, <2>3, OnePoll
<1>4. CASE r = NoRequest /\ (i = At("isRadioOn", "initializeCallback") \/ IsList(i, "callback"))
  BY <1>4, CallbackAt
<1>5. CASE r.request = "RADIO_POWER" /\ i \in Powering(r.parcel)
  <2>1. r \in Requests
    BY <1>5 DEF NoRequest
  <2> QED
    BY <1>5, <2>1, PowerAt
<1> QED
  BY <1>1, <1>2, <1>3, <1>4, <1>5, AtIs

-----------------------------------------------------------------------------
(* What a step of the command thread keeps, whatever it puts on its stack. *)

LEMMA Moves ==
    ASSUME TypeOK, NEW t \in Threads, Stack(work[t]), work[t] # <<>>, NEW ins, Stack(ins), Then(t, ins)
    PROVE  /\ Over(work'[t], ins, work[t]) /\ DOMAIN work' = Threads
           /\ \A u \in Threads : u # t => work'[u] = work[u]
           /\ Next_(t) = work[t][1] /\ 1 \in DOMAIN work[t]
<1>1. work'[t] = ins \o Tail(work[t]) /\ DOMAIN work' = Threads
      /\ \A u \in Threads : u # t => work'[u] = work[u]
  BY DEF Then, TypeOK
<1>2. Over(work'[t], ins, work[t])
  BY <1>1, PushedOver
<1> QED
  BY <1>1, <1>2 DEF Over, Next_

LEMMA CommandKept ==
    ASSUME CommandInv, NEW ins, Over(work'[E], ins, work[E]), current' = current,
           \A k \in DOMAIN ins : Of(current, ins[k]), current = NoRequest => answer' = NoAnswer
    PROVE  CommandInv'
  BY DEF CommandInv, On, Over

LEMMA AnswerKept ==
    ASSUME AnswerInv, NEW ins, Over(work'[E], ins, work[E]), current' = current, answer' = answer,
           (/\ current # NoRequest /\ current.request # "SET_NETWORK_SELECTION_AUTOMATIC"
            /\ Answering(work[E][1])) => \E k \in DOMAIN ins : Answering(ins[k])
    PROVE  AnswerInv'
<1>1. ASSUME current # NoRequest, answer.count = 0,
             current.request # "SET_NETWORK_SELECTION_AUTOMATIC"
      PROVE  \E k \in DOMAIN work'[E] : Answering(work'[E][k])
  <2>1. PICK k \in DOMAIN work[E] : Answering(work[E][k])
    BY <1>1 DEF AnswerInv, On
  <2>2. CASE k = 1
    <3>1. PICK l \in DOMAIN ins : Answering(ins[l])
      BY <1>1, <2>1, <2>2
    <3> QED
      BY <3>1 DEF Over
  <2>3. CASE k # 1
    BY <2>1, <2>3 DEF Over
  <2> QED
    BY <2>2, <2>3
<1> QED
  BY <1>1 DEF AnswerInv, On

LEMMA RadioKept ==
    ASSUME RadioInv, NEW ins, Over(work'[E], ins, work[E]),
           \A k, l \in DOMAIN ins : Radio(ins[k]) => Radio(work[E][1]) /\ (Radio(ins[l]) => k = l),
           \A k \in DOMAIN ins : ins[k] = Set(OFF) => k = 1,
           \/ sState' = sState /\ work[E][1] # Set(OFF)
           \/ sState' # SIM_NOT_READY
           \/ Radio(work[E][1]) /\ \A k \in DOMAIN ins : ~Radio(ins[k])
    PROVE  RadioInv'
<1> DEFINE v == work'[E]
           w == work[E]
<1>0. /\ Len(ins) \in Nat /\ DOMAIN ins = 1..Len(ins) /\ DOMAIN w = 1..Len(w) /\ 1 \in DOMAIN w
      /\ \A i \in DOMAIN v : \/ i \in DOMAIN ins /\ v[i] = ins[i]
                             \/ \E j \in DOMAIN w : j # 1 /\ i = j + Len(ins) - 1 /\ v[i] = w[j]
  BY DEF Over
<1>a. /\ \A k, l \in DOMAIN w : Radio(w[k]) /\ Radio(w[l]) => k = l
      /\ \A k \in DOMAIN w : w[k] = Set(OFF) => k = 1
      /\ (\E k \in DOMAIN w : Radio(w[k])) => sState # SIM_NOT_READY \/ w[1] = Set(OFF)
  BY DEF RadioInv, On
<1> HIDE DEF v, w
<1>1. ASSUME NEW k \in DOMAIN v, NEW l \in DOMAIN v, Radio(v[k]), Radio(v[l]) PROVE k = l
  <2>1. CASE k \in DOMAIN ins /\ v[k] = ins[k] /\ l \in DOMAIN ins /\ v[l] = ins[l]
    BY <1>1, <2>1
  <2>2. ASSUME k \in DOMAIN ins /\ v[k] = ins[k],
               NEW j \in DOMAIN w, j # 1, v[l] = w[j]
        PROVE  FALSE
    BY <1>0, <1>1, <1>a, <2>2 DEF w
  <2>3. ASSUME l \in DOMAIN ins /\ v[l] = ins[l],
               NEW j \in DOMAIN w, j # 1, v[k] = w[j]
        PROVE  FALSE
    BY <1>0, <1>1, <1>a, <2>3 DEF w
  <2>4. ASSUME NEW i \in DOMAIN w, k = i + Len(ins) - 1, v[k] = w[i],
               NEW j \in DOMAIN w, l = j + Len(ins) - 1, v[l] = w[j]
        PROVE  k = l
    BY <1>1, <1>a, <2>4
  <2> QED
    BY <1>0, <2>1, <2>2, <2>3, <2>4
<1>2. ASSUME NEW k \in DOMAIN v, v[k] = Set(OFF) PROVE k = 1
  BY <1>0, <1>2, <1>a
<1>3. ASSUME NEW k \in DOMAIN v, Radio(v[k]) PROVE sState' # SIM_NOT_READY
  <2>1. PICK j \in DOMAIN w : Radio(w[j]) /\ (j = 1 => k \in DOMAIN ins /\ Radio(ins[k]))
    BY <1>0, <1>3 DEF w
  <2>2. sState # SIM_NOT_READY \/ w[1] = Set(OFF)
    BY <1>a, <2>1
  <2>3. CASE sState' = sState /\ w[1] # Set(OFF)
    BY <2>2, <2>3
  <2>4. CASE Radio(w[1]) /\ \A l \in DOMAIN ins : ~Radio(ins[l])
    BY <1>0, <1>a, <2>1, <2>4
  <2> QED
    BY <2>3, <2>4 DEF w
<1> QED
  BY <1>1, <1>2, <1>3 DEF RadioInv, On, v

LEMMA PollKept ==
    ASSUME TypeOK, PollInv, NEW t \in Threads, NEW ins, Over(work'[t], ins, work[t]),
           \A u \in Threads : u # t => work'[u] = work[u],
           timers'["initializeCallback"] = timers["initializeCallback"],
           timers["pollSIMState"] > 0 => timers'["pollSIMState"] > 0,
           sState' = SIM_NOT_READY =>
              \/ \E k \in DOMAIN ins : Owes(ins[k])
              \/ timers'["pollSIMState"] > 0
              \/ sState = SIM_NOT_READY /\ ~Owes(work[t][1])
    PROVE  PollInv'
<1> SUFFICES ASSUME sState' = SIM_NOT_READY, timers'["initializeCallback"] = 0,
                    ~(timers'["pollSIMState"] > 0)
             PROVE  \E u \in Threads : \E k \in DOMAIN work'[u] : Owes(work'[u][k])
  BY DEF PollInv, On
<1>1. CASE \E k \in DOMAIN ins : Owes(ins[k])
  <2>1. PICK k \in DOMAIN ins : Owes(ins[k])
    BY <1>1
  <2>2. k \in DOMAIN work'[t] /\ work'[t][k] = ins[k]
    BY DEF Over
  <2> QED
    BY <2>1, <2>2
<1>2. CASE sState = SIM_NOT_READY /\ ~Owes(work[t][1])
  <2>1. PICK u \in Threads : \E k \in DOMAIN work[u] : Owes(work[u][k])
    BY <1>2 DEF PollInv, On
  <2>2. PICK k \in DOMAIN work[u] : Owes(work[u][k])
    BY <2>1
  <2>3. CASE u # t
    BY <2>2, <2>3
  <2>4. CASE u = t
    <3>1. k # 1
      BY <1>2, <2>2, <2>4
    <3>2. \E l \in DOMAIN work'[t] : work'[t][l] = work[t][k]
      BY <2>4, <3>1 DEF Over
    <3> QED
      BY <2>2, <2>4, <3>2
  <2> QED
    BY <2>3, <2>4
<1> QED
  BY <1>1, <1>2

LEMMA PowerKept ==
    ASSUME PowerInv, NEW ins, Over(work'[E], ins, work[E]), current' = current, answer' = answer,
           sState' = sState, overtaken' = overtaken, ~Switching(work[E]),
           (current.request = "RADIO_POWER" /\ \E k \in DOMAIN ins : Success(ins[k])) =>
              ins[1] \in {Set(OFF), Set(SIM_NOT_READY)},
           (PowersOff(current) /\ \E k \in DOMAIN ins : ins[k].op = "changed") =>
              work[E][1].op = "changed"
    PROVE  PowerInv'
<1>1. ASSUME current.request = "RADIO_POWER", ~Switching(work'[E]),
             \/ answer.frame # <<>> /\ answer.frame[2] = RIL_E_SUCCESS
             \/ \E k \in DOMAIN work'[E] : Success(work'[E][k])
      PROVE  \/ answer.frame # <<>> /\ answer.frame[2] = RIL_E_SUCCESS
             \/ \E k \in DOMAIN work[E] : Success(work[E][k])
  <2>1. ASSUME NEW k \in DOMAIN ins, Success(ins[k]) PROVE FALSE
    <3>1. ins[1] \in {Set(OFF), Set(SIM_NOT_READY)} /\ 1 \in DOMAIN ins
      BY <1>1, <2>1 DEF Over
    <3>2. 1 \in DOMAIN work'[E] /\ work'[E][1] = ins[1]
      BY <3>1 DEF Over
    <3> QED
      BY <1>1, <3>1, <3>2 DEF Switching
  <2>2. ASSUME NEW k \in DOMAIN work'[E], Success(work'[E][k])
        PROVE  \E j \in DOMAIN work[E] : Success(work[E][j])
    BY <2>1, <2>2 DEF Over
  <2> QED
    BY <1>1, <2>2
<1>2. ASSUME PowersOff(current), NEW k \in DOMAIN work'[E], work'[E][k].op = "changed"
      PROVE  \E j \in DOMAIN work[E] : work[E][j].op = "changed"
  BY <1>2 DEF Over
<1> QED
  BY <1>1, <1>2 DEF PowerInv, On

CallsOK ==
    /\ calls.incoming \in Int /\ calls.repolls \in 0..1 /\ calls.expect \in BOOLEAN
    /\ calls = [incoming |-> calls.incoming, repolls |-> calls.repolls, expect |-> calls.expect]
    /\ calls.repolls = 1 => calls.incoming = -1

LEMMA CallsKept ==
    ASSUME CallsInv, NEW ins, Over(work'[E], ins, work[E]), CallsOK',
           \A k \in DOMAIN ins : ~GetsCalls(ins[k])
    PROVE  CallsInv'
<1>1. ASSUME NEW k \in DOMAIN work'[E], GetsCalls(work'[E][k]) PROVE FALSE
  <2>1. PICK j \in DOMAIN work[E] : j # 1 /\ work'[E][k] = work[E][j]
    BY <1>1 DEF Over
  <2>2. Len(work[E]) = 1
    BY <1>1, <2>1 DEF CallsInv, On
  <2>3. DOMAIN work[E] = 1..1
    BY <2>2 DEF Over
  <2> QED
    BY <2>1, <2>3
<1> QED
  BY <1>1 DEF CallsInv, CallsOK, On

LEMMA MainKept ==
    ASSUME TypeOK, MainInv, reader' = reader, opens' = opens, main' = main, s_closed' = s_closed,
           overtaken => overtaken', sState' = sState \/ (s_closed => sState' = UNAVAILABLE),
           \A r \in Sessions : work'[r] = work[r]
    PROVE  MainInv'
<1>1. ASSUME NEW r \in Sessions PROVE ReaderInv(r)'
  <2>1. ReaderInv(r)
    BY DEF MainInv
  <2>2. Past(r)' <=> Past(r)
    BY DEF Past, Gone
  <2>3. Gone(r)' <=> Gone(r)
    BY DEF Gone
  <2>4. Past(r) => s_closed \/ Gone(r)
    BY DEF Past
  <2> QED
    BY <2>1, <2>2, <2>3, <2>4 DEF ReaderInv, On
<1> QED
  BY <1>1 DEF MainInv

-----------------------------------------------------------------------------
(* The steps of the command thread. *)

LEMMA ThreadSets ==
    /\ MaxOpens \in Nat \ {0} /\ MaxTimers \in Nat \ {0} /\ E \in Threads /\ E = 0
    /\ \A r \in Sessions : r \in Threads /\ r # E /\ r \in Nat \ {0}
    /\ \A t \in Threads : t = E \/ t \in Sessions
  BY ReferenceAssumption DEF Threads, E, Sessions

\* A step that leaves the state of the radio alone.
LEMMA CommandStep ==
    ASSUME RefInv, work[E] # <<>>, work[E][1].op # "set", NEW ins, Stack(ins), Then(E, ins),
           \A k \in DOMAIN ins : Of(current, ins[k]) /\ ~GetsCalls(ins[k]),
           \A k \in DOMAIN ins : ins[k] = Set(OFF) => k = 1,
           (/\ current # NoRequest /\ current.request # "SET_NETWORK_SELECTION_AUTOMATIC"
            /\ Answering(work[E][1])) => \E k \in DOMAIN ins : Answering(ins[k]),
           \A k, l \in DOMAIN ins : Radio(ins[k]) => Radio(work[E][1]) /\ (Radio(ins[l]) => k = l),
           Owes(work[E][1]) /\ sState = SIM_NOT_READY =>
              timers'["pollSIMState"] > 0 \/ \E k \in DOMAIN ins : Owes(ins[k]),
           (current.request = "RADIO_POWER" /\ \E k \in DOMAIN ins : Success(ins[k])) =>
              ins[1] \in {Set(OFF), Set(SIM_NOT_READY)},
           (PowersOff(current) /\ \E k \in DOMAIN ins : ins[k].op = "changed") =>
              work[E][1].op = "changed",
           timers' \in [Callbacks -> 0..MaxTimers],
           timers'["initializeCallback"] = timers["initializeCallback"],
           timers["pollSIMState"] > 0 => timers'["pollSIMState"] > 0,
           CallsOK',
           UNCHANGED <<sState, s_closed, s_readerClosed, opens, main, reader, current, answer, overtaken>>
    PROVE  RefInv'
<1>0. /\ TypeOK /\ CommandInv /\ AnswerInv /\ RadioInv /\ PollInv /\ OpenInv /\ PowerInv
      /\ CallsInv /\ MainInv
  BY DEF RefInv
<1>u. /\ sState' = sState /\ s_closed' = s_closed /\ s_readerClosed' = s_readerClosed
      /\ opens' = opens /\ main' = main /\ reader' = reader /\ current' = current
      /\ answer' = answer /\ overtaken' = overtaken
  OBVIOUS
<1>1. /\ Over(work'[E], ins, work[E]) /\ DOMAIN work' = Threads
      /\ \A u \in Threads : u # E => work'[u] = work[u]
      /\ Next_(E) = work[E][1] /\ 1 \in DOMAIN work[E]
  BY <1>0, ThreadSets, Moves DEF CommandInv
<1>2. \A s : work[E][1] # Set(s)
  BY Ops
<1>3. TypeOK'
  BY <1>0, <1>1, <1>u DEF TypeOK
<1>4. CommandInv'
  BY <1>0, <1>1, <1>u, CommandKept DEF CommandInv
<1>5. AnswerInv'
  BY <1>0, <1>1, <1>u, AnswerKept
<1>6. RadioInv'
  BY <1>0, <1>1, <1>2, <1>u, RadioKept
<1>7. PollInv'
  <2>1. sState' = SIM_NOT_READY =>
              \/ \E k \in DOMAIN ins : Owes(ins[k])
              \/ timers'["pollSIMState"] > 0
              \/ sState = SIM_NOT_READY /\ ~Owes(work[E][1])
    BY <1>u
  <2> QED
    BY <1>0, <1>1, <2>1, ThreadSets, PollKept
<1>8. OpenInv'
  BY <1>0, <1>1, <1>u DEF OpenInv, Doing
<1>9. PowerInv'
  <2>1. ~Switching(work[E])
    BY <1>2 DEF Switching
  <2> QED
    BY <1>0, <1>1, <1>u, <2>1, PowerKept
<1>10. CallsInv'
  BY <1>0, <1>1, CallsKept
<1>11. MainInv'
  <2>1. \A r \in Sessions : work'[r] = work[r]
    BY <1>1, ThreadSets
  <2> QED
    BY <1>0, <1>u, <2>1, MainKept
<1> QED
  BY <1>3, <1>4, <1>5, <1>6, <1>7, <1>8, <1>9, <1>10, <1>11 DEF RefInv

LEMMA GoodStep ==
    ASSUME RefInv, work[E] # <<>>, work[E][1].op # "set", NEW ins, Then(E, ins),
           Good(current, work[E][1], ins), CallsOK',
           UNCHANGED <<sState, s_closed, s_readerClosed, opens, main, reader, timers, current,
                       answer, overtaken>>
    PROVE  RefInv'
<1>1. timers' = timers /\ timers \in [Callbacks -> 0..MaxTimers]
  BY DEF RefInv, TypeOK
<1>2. UNCHANGED <<sState, s_closed, s_readerClosed, opens, main, reader, current, answer, overtaken>>
  OBVIOUS
<1>3. /\ Stack(ins) /\ \A k \in DOMAIN ins : Of(current, ins[k]) /\ ~GetsCalls(ins[k])
      /\ \A k \in DOMAIN ins : ins[k] = Set(OFF) => k = 1
      /\ (/\ current # NoRequest /\ current.request # "SET_NETWORK_SELECTION_AUTOMATIC"
          /\ Answering(work[E][1])) => \E k \in DOMAIN ins : Answering(ins[k])
      /\ \A k, l \in DOMAIN ins : Radio(ins[k]) => Radio(work[E][1]) /\ (Radio(ins[l]) => k = l)
  BY Zenon DEF Good
<1>4. /\ Owes(work[E][1]) => \E k \in DOMAIN ins : Owes(ins[k])
      /\ (current.request = "RADIO_POWER" /\ \E k \in DOMAIN ins : Success(ins[k])) =>
            ins[1] \in {Set(OFF), Set(SIM_NOT_READY)}
      /\ (PowersOff(current) /\ \E k \in DOMAIN ins : ins[k].op = "changed") =>
            work[E][1].op = "changed"
  BY Zenon DEF Good
<1>5. timers["pollSIMState"] > 0 => timers'["pollSIMState"] > 0
  BY <1>1
<1>6. timers' \in [Callbacks -> 0..MaxTimers] /\ timers'["initializeCallback"] = timers["initializeCallback"]
  BY <1>1
<1> QED
  BY <1>2, <1>3, <1>4, <1>5, <1>6, CommandStep

LEMMA TopOf ==
    ASSUME RefInv, work[E] # <<>>
    PROVE  /\ Next_(E) = work[E][1] /\ 1 \in DOMAIN work[E] /\ Len(work[E]) \in Nat \ {0}
           /\ DOMAIN work[E] = 1..Len(work[E])
           /\ Of(current, work[E][1]) /\ current \in Requests \union {NoRequest}
           /\ Stack(work[E])
<1>1. Stack(work[E]) /\ (\A k \in DOMAIN work[E] : Of(current, work[E][k]))
      /\ current \in Requests \union {NoRequest}
  BY DEF RefInv, CommandInv, On, TypeOK
<1>2. Next_(E) = work[E][1] /\ 1 \in DOMAIN work[E] /\ Len(work[E]) \in Nat \ {0}
      /\ DOMAIN work[E] = 1..Len(work[E])
  BY <1>1, EmptySeq DEF Stack, Next_
<1> QED
  BY <1>1, <1>2

LEMMA CallsAfter ==
    ASSUME CallsInv, NEW t, NEW m, NEW o \in Outcomes(t, "requestGetCurrentCalls", m),
           USE_TI_COMMANDS => calls.incoming = -1, calls.repolls = 1 => m = -1
    PROVE  /\ CallsAfterPoll(m, o).incoming \in Int /\ CallsAfterPoll(m, o).repolls \in 0..1
           /\ CallsAfterPoll(m, o).expect \in BOOLEAN
           /\ CallsAfterPoll(m, o) = [incoming |-> CallsAfterPoll(m, o).incoming,
                repolls |-> CallsAfterPoll(m, o).repolls, expect |-> CallsAfterPoll(m, o).expect]
           /\ CallsAfterPoll(m, o).repolls = 1 => CallsAfterPoll(m, o).incoming = -1
<1>0. o # Start /\ USE_TI_COMMANDS \in BOOLEAN
  BY OutcomeIs, OutcomeFields, ReferenceAssumption
<1> DEFINE c == CallsAfterPoll(m, o)
<1>1. CASE Failed(o)
  BY <1>1 DEF CallsAfterPoll, CallsInv
<1>2. CASE ~Failed(o) /\ ErroneousAnswer(m, ValidCalls(o))
  <2>1. USE_TI_COMMANDS /\ m >= 0 /\ calls.repolls = 0 /\ calls.incoming = -1
    BY <1>2 DEF ErroneousAnswer, CallsInv
  <2>2. CallsAfterPoll(m, o) = [calls EXCEPT !.repolls = @ + 1]
    BY <1>2 DEF CallsAfterPoll
  <2> QED
    BY <2>1, <2>2 DEF CallsInv
<1>3. CASE ~Failed(o) /\ ~ErroneousAnswer(m, ValidCalls(o))
  <2>1. Ringing(ValidCalls(o)) \in Int
    BY <1>3, CallLines
  <2> QED
    BY <1>0, <1>3, <2>1 DEF CallsAfterPoll, CallsInv
<1> QED
  BY <1>1, <1>2, <1>3

LEMMA AtStep ==
    ASSUME RefInv, AtCommand(E)
    PROVE  RefInv'
<1> DEFINE i == work[E][1]
<1>1. work[E] # <<>> /\ Next_(E) = i /\ Of(current, i) /\ current \in Requests \union {NoRequest}
      /\ i.op = "at" /\ 1 \in DOMAIN work[E]
  BY TopOf DEF AtCommand, Doing
<1> HIDE DEF i
<1>2. PICK o \in Outcomes(E, i.fn, i.memo) :
            /\ Then(E, AfterAt(i.fn, i.memo, o))
            /\ calls' = CASE i.fn = "requestGetCurrentCalls" -> CallsAfterPoll(i.memo, o)
                          [] i.fn = "Ignored" /\ current.request \in AnsweringRequests ->
                                [calls EXCEPT !.expect = USE_TI_COMMANDS]
                          [] OTHER -> calls
  BY <1>1 DEF AtCommand
<1>3. Good(current, i, AfterAt(i.fn, i.memo, o))
  BY <1>1, CommandAt
<1>4. CallsOK'
  <2>1. CASE i.fn = "requestGetCurrentCalls"
    <3>1. calls' = CallsAfterPoll(i.memo, o)
      BY <1>2, <2>1
    <3>2. CallsInv /\ GetsCalls(i) /\ (USE_TI_COMMANDS => calls.incoming = -1)
          /\ (calls.repolls = 1 => i.memo = -1)
      BY <1>1, <2>1 DEF GetsCalls, RefInv, CallsInv, On, i
    <3> QED
      BY <2>1, <3>1, <3>2, CallsAfter DEF CallsOK
  <2>2. CASE i.fn # "requestGetCurrentCalls"
    <3>1. calls' = calls \/ calls' = [calls EXCEPT !.expect = USE_TI_COMMANDS]
      BY <1>2, <2>2
    <3> QED
      BY <3>1, ReferenceAssumption DEF CallsOK, RefInv, CallsInv
  <2> QED
    BY <2>1, <2>2
<1>5. UNCHANGED <<sState, s_closed, s_readerClosed, opens, main, reader, timers, current,
                   answer, overtaken>>
  BY DEF AtCommand
<1>6. i.op # "set"
  BY <1>1
<1> QED
  BY <1>1, <1>2, <1>3, <1>4, <1>5, <1>6, GoodStep DEF i

LEMMA CallsSame ==
    ASSUME RefInv, calls' = calls
    PROVE  CallsOK'
  BY DEF RefInv, CallsInv, CallsOK

LEMMA CallsOf ==
    ASSUME NEW r \in Requests \union {NoRequest}, NEW i, Of(r, i), i.op = "call"
    PROVE  \/ i = Call("pollSIMState") /\ ~PowersOff(r)
           \/ i = Call("isRadioOn") /\ r = NoRequest
<1>1. CASE r = NoRequest
  <2>1. i \in Polling \union Initializing \union {Set(OFF)} /\ r.request # "RADIO_POWER"
    BY <1>1 DEF Of, OfCallback, IsList, IsListEvent, Event, NoRequest
  <2> QED
    BY <1>1, <2>1, Ops DEF Polling, Initializing, PowersOff, Settings, PollCommand
<1>2. CASE r # NoRequest
  <2>1. i \in Polling /\ (PowersOff(r) => i = Settings \/ i.op = "changed")
    <3>1. i # Segfault /\ i # Later("sendCallStateChanged")
      BY Ops DEF Segfault
    <3>2. ~Marshals(r.request, i) /\ ~Handles(r.request, i)
      BY DEF Marshals, Handles
    <3>3. i \notin Powering(r.parcel)
      BY Ops DEF Powering, PowerCommand
    <3> QED
      BY <1>2, <3>1, <3>2, <3>3 DEF Of, OfRequest
  <2>2. i # Settings
    BY Ops DEF Settings
  <2> QED
    BY <2>1, <2>2, Ops DEF Polling, Settings, PollCommand
<1> QED
  BY <1>1, <1>2

LEMMA EventOrCallStep ==
    ASSUME RefInv, EventOrCall(E)
    PROVE  RefInv'
<1> DEFINE i == work[E][1]
<1>1. /\ work[E] # <<>> /\ Next_(E) = i /\ Of(current, i) /\ current \in Requests \union {NoRequest}
      /\ i.op \in {"event", "call"}
      /\ Then(E, IF i.op = "event" THEN <<>>
                 ELSE IF i.fn = "isRadioOn" THEN isRadioOn("initializeCallback", Start)
                 ELSE pollSIMState)
  BY TopOf DEF EventOrCall, Doing
<1>2. UNCHANGED <<sState, s_closed, s_readerClosed, opens, main, reader, timers, current,
                   answer, overtaken>> /\ CallsOK'
  BY CallsSame DEF EventOrCall
<1> HIDE DEF i
<1>3. CASE i.op = "event"
  <2>1. Then(E, <<>>) /\ ~Answering(i) /\ ~Owes(i)
    BY <1>1, <1>3, Ops DEF Answering, Owes, PollCommand
  <2> QED
    BY <1>1, <1>2, <1>3, <2>1, Empty, GoodStep DEF i
<1>4. CASE i = Call("isRadioOn") /\ current = NoRequest
  <2> DEFINE d == At("isRadioOn", "initializeCallback")
  <2>1. Then(E, <<d>>)
    BY <1>1, <1>4, Ops DEF isRadioOn, Start
  <2>2. Radio(d) /\ Radio(i) /\ ~Answering(i) /\ ~Owes(i) /\ ~GetsCalls(d) /\ d # Set(OFF) /\ ~Success(d)
        /\ d.op = "at"
    BY <1>4, Ops DEF Radio, Initializing, Answering, Owes, PollCommand, GetsCalls, Success
  <2>3. Of(current, d)
    BY <1>4 DEF Of, OfCallback, Initializing
  <2>4. Good(current, i, <<d>>)
    BY <2>2, <2>3, Tuples DEF Good
  <2> QED
    BY <1>1, <1>2, <2>1, <2>4, GoodStep DEF i
<1>5. CASE i = Call("pollSIMState") /\ ~PowersOff(current) /\ sState = SIM_NOT_READY
  <2>1. Then(E, <<PollCommand>>)
    BY <1>1, <1>5, Ops DEF pollSIMState, getSIMStatus, PollCommand, SIM_NOT_READY, OFF, UNAVAILABLE
  <2>2. PollCommand \in Polling /\ PollCommand.op # "changed" /\ Owes(PollCommand) /\ ~Answering(i)
    BY <1>5, Ops DEF Polling, PollCommand, Owes, Answering
  <2>3. Good(current, i, <<PollCommand>>)
    BY <1>1, <1>5, <2>2, OnePoll
  <2> QED
    BY <1>1, <1>2, <2>1, <2>3, GoodStep DEF i
<1>6. CASE i = Call("pollSIMState") /\ sState # SIM_NOT_READY
  <2>1. Then(E, <<>>)
    BY <1>1, <1>6, Ops DEF pollSIMState
  <2>2. ~Answering(i)
    BY <1>6, Ops DEF Answering
  <2>3. timers' = timers /\ timers \in [Callbacks -> 0..MaxTimers]
    BY <1>2 DEF RefInv, TypeOK
  <2> QED
    BY <1>1, <1>2, <1>6, <2>1, <2>2, <2>3, Tuples, CommandStep DEF i
<1> QED
  BY <1>1, <1>3, <1>4, <1>5, <1>6, CallsOf

\* What the rest of setRadioState finds.
LEMMA ChangedOf ==
    ASSUME NEW r \in Requests \union {NoRequest}, NEW i, Of(r, i), i.op = "changed"
    PROVE  \E s \in RadioStates, look \in Looks : i = Changed(s, look)
<1>1. i \in Polling
  <2>1. CASE r = NoRequest
    <3>1. ~IsList(i, "callback") /\ ~IsListEvent(i) /\ i \notin Initializing /\ i # Set(OFF)
      BY Ops DEF IsList, IsListEvent, Initializing
    <3> QED
      BY <2>1, <3>1 DEF Of, OfCallback
  <2>2. CASE r # NoRequest
    <3>1. i # Segfault /\ i # Later("sendCallStateChanged")
      BY Ops DEF Segfault
    <3>2. ~Marshals(r.request, i) /\ ~Handles(r.request, i)
      BY DEF Marshals, Handles
    <3>3. i \notin Powering(r.parcel)
      BY Ops DEF Powering, PowerCommand
    <3> QED
      BY <2>2, <3>1, <3>2, <3>3 DEF Of, OfRequest
  <2> QED
    BY <2>1, <2>2
<1> QED
  BY <1>1, Ops DEF Polling, Settings, PollCommand

Rest(i) ==
    CASE i.look = "differs" -> IF sState = i.old THEN <<>> ELSE <<Changed(i.old, "ready")>>
      [] i.look = "ready" ->
            IF sState = SIM_READY THEN onSIMReady ELSE <<Changed(i.old, "notReady")>>
      [] i.look = "notReady" -> IF sState = SIM_NOT_READY THEN onRadioPowerOn ELSE <<>>

LEMMA JoinTuples ==
    ASSUME NEW a, NEW b
    PROVE  <<a>> \o <<b>> = <<a, b>> /\ <<>> \o <<b>> = <<b>>
<1> DEFINE S == {a, b}
<1>1. <<a>> \in Seq(S) /\ <<b>> \in Seq(S) /\ <<>> \in Seq(S) /\ <<a, b>> \in Seq(S)
  OBVIOUS
<1>2. Len(<<a>>) = 1 /\ Len(<<b>>) = 1 /\ Len(<<>>) = 0 /\ <<a>>[1] = a /\ <<b>>[1] = b
  OBVIOUS
<1> HIDE DEF S
<1>3. <<a>> \o <<b>> \in Seq(S) /\ Len(<<a>> \o <<b>>) = 2
      /\ (<<a>> \o <<b>>)[1] = a /\ (<<a>> \o <<b>>)[2] = b
  BY <1>1, <1>2, ConcatProperties
<1>4. <<>> \o <<b>> = <<b>>
  BY <1>1, ConcatEmptySeq
<1>5. <<a>> \o <<b>> = <<a, b>>
  <2> DEFINE v == <<a>> \o <<b>>
             w == <<a, b>>
  <2>1. v \in Seq(S) /\ w \in Seq(S) /\ Len(v) = Len(w) /\ Len(v) = 2
        /\ v[1] = w[1] /\ v[2] = w[2]
    BY <1>1, <1>3
  <2> HIDE DEF v, w
  <2>2. \A k \in 1..2 : v[k] = w[k]
    BY <2>1
  <2>3. v = w
    BY <2>1, <2>2, SeqEqual
  <2> QED
    BY <2>3 DEF v, w
<1> QED
  BY <1>4, <1>5

LEMMA AfterChanged ==
    ASSUME NEW i, NEW s \in RadioStates, NEW look \in Looks, i = Changed(s, look), NEW ins,
           ins = Rest(i)
    PROVE  /\ Stack(ins) /\ \A k \in DOMAIN ins : ins[k] \in Polling
           /\ \A k \in DOMAIN ins : ins[k] \in {Settings, Call("pollSIMState")} \/ ins[k].op = "changed"
           /\ sState = SIM_NOT_READY /\ Owes(i) => \E k \in DOMAIN ins : Owes(ins[k])
           /\ (\E k \in DOMAIN ins : ins[k] = Call("pollSIMState")) => sState = SIM_NOT_READY
<1>0. i.look = look /\ i.old = s /\ i.op = "changed"
  BY Ops
<1>1. SIM_READY # SIM_NOT_READY
  BY DEF SIM_READY, SIM_NOT_READY
<1>2. \A l \in Looks : Changed(s, l) \in Polling
  BY DEF Polling
<1>3. Settings \in Polling /\ Call("pollSIMState") \in Polling
  BY DEF Polling
<1>4. Settings # Call("pollSIMState") /\ Settings.op = "at"
  BY Ops DEF Settings
<1> DEFINE Fits ==
        /\ Stack(ins) /\ \A k \in DOMAIN ins : ins[k] \in Polling
        /\ \A k \in DOMAIN ins : ins[k] \in {Settings, Call("pollSIMState")} \/ ins[k].op = "changed"
        /\ sState = SIM_NOT_READY /\ Owes(i) => \E k \in DOMAIN ins : Owes(ins[k])
        /\ (\E k \in DOMAIN ins : ins[k] = Call("pollSIMState")) => sState = SIM_NOT_READY
<1>8. ASSUME NEW d \in Polling, ins = <<d>>, d = Settings \/ d = Call("pollSIMState") \/ d.op = "changed",
             sState = SIM_NOT_READY => Owes(d), d = Call("pollSIMState") => sState = SIM_NOT_READY
      PROVE  Fits
  <2>1. Stack(ins) /\ DOMAIN ins = {1} /\ ins[1] = d
    BY <1>8, Tuples
  <2> QED
    BY <1>8, <2>1
<1>9. ASSUME ins = <<>>, ~(sState = SIM_NOT_READY /\ Owes(i)) PROVE Fits
  <2>1. Stack(ins) /\ DOMAIN ins = {}
    BY <1>9, Tuples
  <2> QED
    BY <1>9, <2>1
<1>10. ASSUME ins = <<Settings, Call("pollSIMState")>>, sState = SIM_NOT_READY, Owes(Call("pollSIMState"))
       PROVE Fits
  <2> DEFINE c == Call("pollSIMState")
  <2> HIDE DEF c
  <2>1. /\ Stack(ins) /\ DOMAIN ins = {1, 2} /\ ins[1] = Settings /\ ins[2] = c
    <3>1. ins = <<Settings, c>>
      BY <1>10 DEF c
    <3> QED
      BY <3>1, Tuples
  <2> QED
    BY <1>3, <1>10, <2>1 DEF c
<1> SUFFICES Fits
  OBVIOUS
<1> HIDE DEF Fits
<1>5. CASE look = "differs"
  <2>1. ins = IF sState = s THEN <<>> ELSE <<Changed(s, "ready")>>
    BY <1>0, <1>5 DEF Rest
  <2>2. Owes(Changed(s, "ready")) /\ Changed(s, "ready").op = "changed" /\ Changed(s, "ready") # Call("pollSIMState")
    BY Ops DEF Owes
  <2>3. CASE sState = s
    <3>1. ~(sState = SIM_NOT_READY /\ Owes(i))
      BY <1>0, <1>5, <2>3, Ops DEF Owes, PollCommand
    <3> QED
      BY <1>9, <2>1, <2>3, <3>1
  <2>4. CASE sState # s
    BY <1>2, <1>8, <2>1, <2>2, <2>4 DEF Looks
  <2> QED
    BY <2>3, <2>4
<1>6. CASE look = "ready"
  <2>1. ins = IF sState = SIM_READY THEN <<Settings>> ELSE <<Changed(s, "notReady")>>
    BY <1>0, <1>6 DEF Rest, onSIMReady, Settings
  <2>2. Owes(Changed(s, "notReady")) /\ Changed(s, "notReady").op = "changed" /\ Changed(s, "notReady") # Call("pollSIMState")
    BY Ops DEF Owes
  <2> QED
    <3>1. CASE sState = SIM_READY
      BY <1>1, <1>3, <1>4, <1>8, <2>1, <3>1
    <3>2. CASE sState # SIM_READY
      BY <1>2, <1>8, <2>1, <2>2, <3>2 DEF Looks
    <3> QED
      BY <3>1, <3>2
<1>7. CASE look = "notReady"
  <2>1. ins = IF sState = SIM_NOT_READY THEN onRadioPowerOn ELSE <<>>
    BY <1>0, <1>7 DEF Rest
  <2>2. onRadioPowerOn \in {<<Settings, Call("pollSIMState")>>, <<Call("pollSIMState")>>}
    <3> DEFINE c == Call("pollSIMState")
    <3>1. onRadioPowerOn = (IF USE_TI_COMMANDS THEN <<Settings>> ELSE <<>>) \o <<c>>
      BY DEF onRadioPowerOn, Settings
    <3> HIDE DEF c
    <3>2. onRadioPowerOn \in {<<Settings, c>>, <<c>>}
      BY <3>1, JoinTuples
    <3> QED
      BY <3>2 DEF c
  <2>3. Owes(Call("pollSIMState"))
    BY DEF Owes
  <2>4. CASE sState = SIM_NOT_READY /\ ins = <<Settings, Call("pollSIMState")>>
    BY <1>10, <2>3, <2>4
  <2>5. CASE sState = SIM_NOT_READY /\ ins = <<Call("pollSIMState")>>
    BY <1>3, <1>8, <2>3, <2>5
  <2>6. CASE sState # SIM_NOT_READY
    BY <1>9, <2>1, <2>6
  <2> QED
    BY <2>1, <2>2, <2>4, <2>5, <2>6
<1> QED
  BY <1>5, <1>6, <1>7, Zenon DEF Looks, Fits

LEMMA ChangedStep ==
    ASSUME RefInv, radioStateChanged(E)
    PROVE  RefInv'
<1> DEFINE i == work[E][1]
<1>1. work[E] # <<>> /\ Next_(E) = i /\ Of(current, i) /\ current \in Requests \union {NoRequest}
      /\ i.op = "changed" /\ 1 \in DOMAIN work[E]
  BY TopOf DEF radioStateChanged, Doing
<1>2. UNCHANGED <<sState, s_closed, s_readerClosed, opens, main, reader, current, answer, overtaken>>
      /\ CallsOK' /\ timers' = timers /\ timers \in [Callbacks -> 0..MaxTimers]
  <2>1. overtaken' = (overtaken \/ (E # E /\ sState # UNAVAILABLE)) /\ overtaken \in BOOLEAN
    BY DEF radioStateChanged, RefInv, TypeOK
  <2> QED
    BY <2>1, CallsSame DEF radioStateChanged, RefInv, TypeOK
<1>3. PICK s \in RadioStates, look \in Looks : i = Changed(s, look)
  BY <1>1, ChangedOf
<1> DEFINE ins == Rest(i)
<1>4. Then(E, ins)
  BY <1>1 DEF radioStateChanged, Rest
<1> HIDE DEF i
<1>5. /\ Stack(ins) /\ \A k \in DOMAIN ins : ins[k] \in Polling
      /\ \A k \in DOMAIN ins : ins[k] \in {Settings, Call("pollSIMState")} \/ ins[k].op = "changed"
      /\ sState = SIM_NOT_READY /\ Owes(i) => \E k \in DOMAIN ins : Owes(ins[k])
      /\ (\E k \in DOMAIN ins : ins[k] = Call("pollSIMState")) => sState = SIM_NOT_READY
  BY <1>3, AfterChanged
<1> HIDE DEF ins
<1>6. PowersOff(current) => sState # SIM_NOT_READY
  BY <1>1 DEF RefInv, PowerInv, On, i
<1>7. ASSUME NEW k \in DOMAIN ins
      PROVE  /\ Of(current, ins[k]) /\ ~GetsCalls(ins[k]) /\ ins[k] # Set(OFF) /\ ~Radio(ins[k])
             /\ ~Success(ins[k])
  <2>1. PowersOff(current) => ins[k] = Settings \/ ins[k].op = "changed"
    BY <1>5, <1>6
  <2> QED
    BY <1>1, <1>5, <2>1, PollOf
<1>8. ~Answering(i) /\ i.op # "set"
  BY <1>1 DEF Answering
<1>9. /\ timers["pollSIMState"] > 0 => timers'["pollSIMState"] > 0
      /\ timers' \in [Callbacks -> 0..MaxTimers] /\ timers'["initializeCallback"] = timers["initializeCallback"]
  BY <1>2
<1>10. UNCHANGED <<sState, s_closed, s_readerClosed, opens, main, reader, current, answer, overtaken>>
       /\ CallsOK'
  BY <1>2
<1> QED
  BY <1>1, <1>4, <1>5, <1>7, <1>8, <1>9, <1>10, CommandStep DEF i

LEMMA LaterOf ==
    ASSUME NEW r \in Requests \union {NoRequest}, NEW i, Of(r, i), i.op = "later"
    PROVE  i.callback = "pollSIMState" \/ (i.callback \notin Callbacks /\ ~Owes(i))
<1>1. CASE r = NoRequest
  <2>1. i \in Polling
    <3>1. ~IsList(i, "callback") /\ ~IsListEvent(i) /\ i \notin Initializing /\ i # Set(OFF)
      BY Ops DEF IsList, IsListEvent, Initializing
    <3> QED
      BY <1>1, <3>1 DEF Of, OfCallback
  <2>2. i = Later("pollSIMState")
    BY <2>1, Ops DEF Polling, Settings, PollCommand
  <2> QED
    BY <2>2 DEF Later
<1>2. CASE r # NoRequest
  <2>1. i = Later("sendCallStateChanged") \/ i \in Polling
    <3>1. i # Segfault
      BY DEF Segfault
    <3>2. ~Marshals(r.request, i) /\ ~Handles(r.request, i)
      BY DEF Marshals, Handles
    <3>3. i \notin Powering(r.parcel)
      BY Ops DEF Powering, PowerCommand
    <3> QED
      BY <1>2, <3>1, <3>2, <3>3 DEF Of, OfRequest
  <2>2. CASE i = Later("sendCallStateChanged")
    BY <2>2 DEF Later, Callbacks, Owes, PollCommand, At, Call
  <2>3. CASE i \in Polling
    <3>1. i = Later("pollSIMState")
      BY <2>3, Ops DEF Polling, Settings, PollCommand
    <3> QED
      BY <3>1 DEF Later
  <2> QED
    BY <2>1, <2>2, <2>3
<1> QED
  BY <1>1, <1>2

LEMMA TimersAfter ==
    ASSUME TypeOK, NEW c \in Callbacks
    PROVE  /\ Scheduled(c) \in [Callbacks -> 0..MaxTimers] /\ Scheduled(c)[c] > 0
           /\ \A d \in Callbacks : d # c => Scheduled(c)[d] = timers[d]
           /\ \A d \in Callbacks : timers[d] > 0 => Scheduled(c)[d] > 0
<1>1. timers \in [Callbacks -> 0..MaxTimers] /\ MaxTimers \in Nat \ {0}
  BY ThreadSets DEF TypeOK
<1>2. timers[c] \in 0..MaxTimers /\ Scheduled(c)[c] = IF timers[c] < MaxTimers THEN timers[c] + 1 ELSE timers[c]
  BY <1>1 DEF Scheduled
<1> QED
  BY <1>1, <1>2 DEF Scheduled

LEMMA LaterStep ==
    ASSUME RefInv, RIL_requestTimedCallback(E)
    PROVE  RefInv'
<1> DEFINE i == work[E][1]
<1>1. /\ work[E] # <<>> /\ Next_(E) = i /\ Of(current, i) /\ current \in Requests \union {NoRequest}
      /\ i.op = "later" /\ Then(E, <<>>)
  BY TopOf DEF RIL_requestTimedCallback, Doing
<1>2. UNCHANGED <<sState, s_closed, s_readerClosed, opens, main, reader, current, answer, overtaken>>
      /\ CallsOK'
  BY CallsSame DEF RIL_requestTimedCallback
<1>3. timers' = IF i.callback \in Callbacks THEN Scheduled(i.callback) ELSE timers
  BY <1>1 DEF RIL_requestTimedCallback
<1> HIDE DEF i
<1>4. /\ timers' \in [Callbacks -> 0..MaxTimers]
      /\ timers'["initializeCallback"] = timers["initializeCallback"]
      /\ timers["pollSIMState"] > 0 => timers'["pollSIMState"] > 0
      /\ Owes(i) => timers'["pollSIMState"] > 0
  <2>0. TypeOK /\ timers \in [Callbacks -> 0..MaxTimers]
    BY DEF RefInv, TypeOK
  <2>1. CASE i.callback = "pollSIMState"
    <3>1. "pollSIMState" \in Callbacks /\ "initializeCallback" \in Callbacks
      BY DEF Callbacks
    <3>2. timers' = Scheduled("pollSIMState")
      BY <1>3, <2>1, <3>1
    <3> QED
      BY <2>0, <3>1, <3>2, TimersAfter
  <2>2. CASE i.callback \notin Callbacks /\ ~Owes(i)
    BY <1>3, <2>0, <2>2
  <2> QED
    BY <1>1, <2>1, <2>2, LaterOf
<1>5. ~Answering(i)
  BY <1>1 DEF Answering
<1>6. Stack(<<>>) /\ DOMAIN <<>> = {} /\ i.op # "set"
  BY <1>1, Tuples
<1> QED
  BY <1>1, <1>2, <1>4, <1>5, <1>6, CommandStep DEF i

-----------------------------------------------------------------------------
(* The initial state, also of a new process. *)

LEMMA InitInv == Init => RefInv
<1> SUFFICES ASSUME Init PROVE RefInv
  OBVIOUS
<1> USE DEF Init
<1>0. /\ \A t \in Threads : work[t] = <<>> /\ DOMAIN work[t] = {} /\ Stack(work[t])
      /\ DOMAIN work = Threads /\ work[E] = <<>> /\ DOMAIN work[E] = {} /\ Stack(work[E])
  BY Tuples, ThreadSets
<1>1. TypeOK
  <2>1. sState \in RadioStates /\ current \in Requests \union {NoRequest}
    BY DEF RadioStates
  <2>2. {s_closed, s_readerClosed, overtaken} \subseteq BOOLEAN
    OBVIOUS
  <2>3. opens \in 0..MaxOpens /\ answer.count \in 0..2
    BY ThreadSets DEF NoAnswer
  <2>4. main \in {"open", "at_open", "initialize", "waitForClose"}
    OBVIOUS
  <2>5. reader \in [Sessions -> {"none", "reading", "ended"}]
    OBVIOUS
  <2>6. timers \in [Callbacks -> 0..MaxTimers]
    BY ThreadSets
  <2> QED
    BY <1>0, <2>1, <2>2, <2>3, <2>4, <2>5, <2>6 DEF TypeOK
<1>2. CommandInv /\ RadioInv /\ PollInv /\ OpenInv
  BY <1>0 DEF CommandInv, RadioInv, PollInv, OpenInv, UNAVAILABLE, SIM_NOT_READY
<1>3. AnswerInv /\ PowerInv
  <2>1. /\ answer = [frame |-> answer.frame, count |-> answer.count]
        /\ answer.frame = <<>> /\ answer.count = 0 /\ current.request # "RADIO_POWER"
    BY DEF NoAnswer, NoRequest
  <2>2. ~PowersOff(current)
    BY <2>1 DEF PowersOff
  <2> QED
    BY <1>0, <2>1, <2>2 DEF AnswerInv, PowerInv
<1>4. CallsInv
  BY <1>0 DEF CallsInv, NoCalls
<1>5. MainInv
  <2>1. \A r \in Sessions : reader[r] = "none" /\ r > opens /\ work[r] = <<>>
    BY <1>0, ThreadSets
  <2> QED
    BY <2>1 DEF MainInv, ReaderInv
<1> QED
  BY <1>1, <1>2, <1>3, <1>4, <1>5 DEF RefInv

LEMMA RespawnStep ==
    ASSUME NEW t, Respawn(t)
    PROVE  RefInv'
<1>1. Init'
  BY DEF Respawn, Init
<1> QED
  BY <1>1, InitInv, PTL

-----------------------------------------------------------------------------
LEMMA CompleteOf ==
    ASSUME NEW r \in Requests \union {NoRequest}, NEW i, Of(r, i), i.op = "complete"
    PROVE  r \in Requests /\ Marshals(r.request, i) /\ Echoes(r, i)
<1>1. i \notin Polling /\ i \notin Initializing /\ i # Set(OFF)
  BY Ops DEF Polling, Initializing, Settings, PollCommand
<1>2. ~IsList(i, "callback") /\ ~IsListEvent(i)
  BY Ops DEF IsList, IsListEvent
<1>3. i # Segfault /\ i # Later("sendCallStateChanged") /\ ~Handles(r.request, i)
  BY Ops DEF Segfault, Handles
<1>4. i \notin Powering(r.parcel)
  BY Ops DEF Powering, PowerCommand
<1> QED
  BY <1>1, <1>2, <1>3, <1>4 DEF Of, OfCallback, OfRequest

LEMMA CompleteStep ==
    ASSUME RefInv, Complete(E)
    PROVE  RefInv'
<1> DEFINE i == work[E][1]
           frame == AnswerFrame(current.request, i.e, i.response, i.len)
<1>0. /\ TypeOK /\ CommandInv /\ AnswerInv /\ RadioInv /\ PollInv /\ OpenInv /\ PowerInv
      /\ CallsInv /\ MainInv
  BY DEF RefInv
<1>1. /\ work[E] # <<>> /\ Next_(E) = i /\ Of(current, i) /\ current \in Requests \union {NoRequest}
      /\ i.op = "complete" /\ Then(E, <<>>) /\ Stack(work[E])
  BY TopOf DEF Complete, Doing
<1>2. current \in Requests /\ Marshals(current.request, i) /\ Echoes(current, i) /\ current # NoRequest
  BY <1>1, CompleteOf, RequestIs
<1>3. answer' = IF answer.count = 0 THEN [frame |-> frame, count |-> 1]
                ELSE [answer EXCEPT !.count = 2]
  BY <1>1 DEF Complete
<1>u. /\ sState' = sState /\ s_closed' = s_closed /\ s_readerClosed' = s_readerClosed
      /\ opens' = opens /\ main' = main /\ reader' = reader /\ current' = current
      /\ timers' = timers /\ calls' = calls /\ overtaken' = overtaken
  BY DEF Complete
<1>4. /\ Over(work'[E], <<>>, work[E]) /\ DOMAIN work' = Threads
      /\ \A u \in Threads : u # E => work'[u] = work[u]
      /\ 1 \in DOMAIN work[E] /\ DOMAIN <<>> = {}
  BY <1>0, <1>1, ThreadSets, Tuples, Moves
<1>5. /\ frame \in Seq(Values) /\ Len(frame) >= 2 /\ frame # <<>>
      /\ frame[2] = i.e /\ i.e # RIL_ERRNO_INVALID_RESPONSE
  BY <1>2, EmptySeq DEF Marshals
<1>6. ~Owes(i) /\ i # Set(OFF) /\ (i.e = RIL_E_SUCCESS => Success(i))
  BY <1>1, Ops DEF Owes, PollCommand, Success
<1>e. (current.request \in OemHooks /\ frame[2] = RIL_E_SUCCESS) =>
         SubSeq(frame, 3, Len(frame)) =
                  IF current.parcel # <<-1>> THEN current.parcel
                  ELSE IF current.request = "OEM_HOOK_RAW" THEN <<0>> ELSE <<>>
  BY <1>2, <1>5, Zenon DEF Echoes
<1> HIDE DEF frame
<1>7. /\ answer' = [frame |-> answer'.frame, count |-> answer'.count]
      /\ answer'.frame = (IF answer.count = 0 THEN frame ELSE answer.frame)
      /\ answer'.count \in 1..2
  BY <1>0, <1>3 DEF AnswerInv
<1>8. TypeOK'
  BY <1>0, <1>4, <1>7, <1>u DEF TypeOK
<1>9. CommandInv'
  BY <1>0, <1>2, <1>4, <1>u, CommandKept
<1>10. AnswerInv'
  <2>1. answer'.frame # <<>> /\ answer'.count # 0 /\ answer'.count \in 0..2
    BY <1>0, <1>5, <1>7 DEF AnswerInv
  <2>2. CASE answer.count = 0
    BY <1>5, <1>7, <1>e, <1>u, <2>1, <2>2 DEF AnswerInv
  <2>3. CASE answer.count # 0
    BY <1>0, <1>7, <1>u, <2>1, <2>3 DEF AnswerInv
  <2> QED
    BY <2>2, <2>3
<1>11. RadioInv'
  BY <1>0, <1>4, <1>6, <1>u, RadioKept
<1>12. PollInv'
  BY <1>0, <1>4, <1>6, <1>u, ThreadSets, PollKept
<1>13. OpenInv'
  BY <1>0, <1>1, <1>u DEF OpenInv, Doing
<1>14. PowerInv'
  <2>1. ~Switching(work[E])
    BY <1>1, Ops DEF Switching
  <2>2. ASSUME NEW k \in DOMAIN work'[E]
        PROVE  \E j \in DOMAIN work[E] : work'[E][k] = work[E][j]
    BY <1>4, <2>2 DEF Over
  <2>3. (answer'.frame # <<>> /\ answer'.frame[2] = RIL_E_SUCCESS) =>
           \/ answer.frame # <<>> /\ answer.frame[2] = RIL_E_SUCCESS
           \/ \E j \in DOMAIN work[E] : Success(work[E][j])
    BY <1>0, <1>4, <1>5, <1>6, <1>7 DEF AnswerInv
  <2>4. (\E k \in DOMAIN work'[E] : Success(work'[E][k])) => \E j \in DOMAIN work[E] : Success(work[E][j])
    BY <2>2
  <2>5. (\E k \in DOMAIN work'[E] : work'[E][k].op = "changed") => \E j \in DOMAIN work[E] : work[E][j].op = "changed"
    BY <2>2
  <2> HIDE DEF i
  <2> QED
    BY <1>0, <1>u, <2>1, <2>3, <2>4, <2>5 DEF PowerInv, On
<1>15. CallsInv'
  BY <1>4, <1>0, <1>u, CallsSame, CallsKept
<1>16. MainInv'
  <2>1. \A r \in Sessions : work'[r] = work[r]
    BY <1>4, ThreadSets
  <2> QED
    BY <1>0, <1>u, <2>1, MainKept
<1> QED
  BY <1>8, <1>9, <1>10, <1>11, <1>12, <1>13, <1>14, <1>15, <1>16 DEF RefInv

LEMMA SetOf ==
    ASSUME NEW r \in Requests \union {NoRequest}, NEW i, Of(r, i), i.op = "set"
    PROVE  /\ i = Set(i.state) /\ i.state \in {OFF, SIM_NOT_READY, SIM_READY, SIM_LOCKED_OR_ABSENT}
           /\ (r.request = "RADIO_POWER" /\ i.state = OFF) => r.parcel[2] = 0
           /\ (r.request = "RADIO_POWER" /\ i.state # OFF) => r.parcel[2] # 0
<1>1. CASE r = NoRequest
  <2>1. ~IsList(i, "callback") /\ ~IsListEvent(i)
    BY Ops DEF IsList, IsListEvent
  <2>2. i \in {Set(OFF), Set(SIM_NOT_READY), Set(SIM_READY), Set(SIM_LOCKED_OR_ABSENT)}
    BY <1>1, <2>1, Ops DEF Of, OfCallback, Polling, Initializing, Settings, PollCommand
  <2>3. r.request # "RADIO_POWER"
    BY <1>1 DEF NoRequest
  <2> QED
    BY <2>2, <2>3, Ops
<1>2. CASE r # NoRequest
  <2>1. i # Segfault /\ i # Later("sendCallStateChanged") /\ ~Handles(r.request, i) /\ ~Marshals(r.request, i)
    BY Ops DEF Segfault, Handles, Marshals
  <2>2. CASE i \in Polling /\ (PowersOff(r) => i = Settings \/ i.op = "changed")
    <3>1. i \in {Set(SIM_READY), Set(SIM_LOCKED_OR_ABSENT)} /\ ~PowersOff(r)
      BY <2>2, Ops DEF Polling, Settings, PollCommand
    <3> QED
      BY <3>1, Ops DEF PowersOff, OFF, SIM_READY, SIM_LOCKED_OR_ABSENT
  <2>3. CASE r.request = "RADIO_POWER" /\ i \in Powering(r.parcel)
    <3>1. i = Set(IF r.parcel[2] = 0 THEN OFF ELSE SIM_NOT_READY)
      BY <2>3, Ops DEF Powering, PowerCommand
    <3> QED
      BY <3>1, Ops DEF OFF, SIM_NOT_READY
  <2> QED
    BY <1>2, <2>1, <2>2, <2>3 DEF Of, OfRequest
<1> QED
  BY <1>1, <1>2

LEMMA SetStep ==
    ASSUME RefInv, setRadioState(E)
    PROVE  RefInv'
<1> DEFINE i == work[E][1]
           d == Changed(sState, "differs")
<1>0. /\ TypeOK /\ CommandInv /\ AnswerInv /\ RadioInv /\ PollInv /\ OpenInv /\ PowerInv
      /\ CallsInv /\ MainInv
  BY DEF RefInv
<1>1. /\ work[E] # <<>> /\ Next_(E) = i /\ Of(current, i) /\ current \in Requests \union {NoRequest}
      /\ i.op = "set" /\ Then(E, <<d>>) /\ Stack(work[E])
  BY TopOf DEF setRadioState, Doing
<1>2. /\ i = Set(i.state) /\ i.state \in {OFF, SIM_NOT_READY, SIM_READY, SIM_LOCKED_OR_ABSENT}
      /\ (current.request = "RADIO_POWER" /\ i.state = OFF) => current.parcel[2] = 0
      /\ (current.request = "RADIO_POWER" /\ i.state # OFF) => current.parcel[2] # 0
  BY <1>1, SetOf
<1>3. sState' = IF s_closed THEN UNAVAILABLE ELSE i.state
  BY <1>1 DEF setRadioState, NewState
<1>u. /\ s_closed' = s_closed /\ s_readerClosed' = s_readerClosed
      /\ opens' = opens /\ main' = main /\ reader' = reader /\ current' = current
      /\ timers' = timers /\ calls' = calls /\ overtaken' = overtaken /\ answer' = answer
  BY <1>0 DEF setRadioState, TypeOK
<1> HIDE DEF i, d
<1>4. /\ Over(work'[E], <<d>>, work[E]) /\ DOMAIN work' = Threads
      /\ \A u \in Threads : u # E => work'[u] = work[u]
      /\ 1 \in DOMAIN work[E] /\ DOMAIN <<d>> = {1} /\ <<d>>[1] = d
  BY <1>0, <1>1, ThreadSets, Tuples, Moves
<1>5. d \in Polling /\ d.op = "changed" /\ d.look = "differs" /\ d.old = sState
  BY <1>0, Ops DEF Polling, d, TypeOK, Looks
<1>6. Of(current, d) /\ ~GetsCalls(d) /\ d # Set(OFF) /\ ~Radio(d) /\ ~Success(d)
  BY <1>1, <1>5, PollOf
<1>7. /\ UNAVAILABLE \notin {OFF, SIM_NOT_READY, SIM_READY, SIM_LOCKED_OR_ABSENT}
      /\ OFF \notin {SIM_NOT_READY, SIM_READY, SIM_LOCKED_OR_ABSENT}
      /\ {UNAVAILABLE, OFF, SIM_NOT_READY, SIM_READY, SIM_LOCKED_OR_ABSENT} = RadioStates
  BY DEF UNAVAILABLE, OFF, SIM_NOT_READY, SIM_READY, SIM_LOCKED_OR_ABSENT, RadioStates
<1>8. ~Answering(i)
  BY <1>1 DEF Answering
<1>9. TypeOK'
  <2>1. sState' \in RadioStates
    BY <1>2, <1>3, <1>7
  <2> QED
    BY <1>0, <1>4, <1>u, <2>1 DEF TypeOK
<1>10. CommandInv'
  BY <1>0, <1>4, <1>6, <1>u, CommandKept DEF CommandInv
<1>11. AnswerInv'
  BY <1>0, <1>4, <1>8, <1>u, AnswerKept DEF i
<1>12. i.state = SIM_NOT_READY => Radio(i) /\ sState # SIM_NOT_READY
  <2> SUFFICES ASSUME i.state = SIM_NOT_READY PROVE Radio(i) /\ sState # SIM_NOT_READY
    OBVIOUS
  <2>1. i = Set(SIM_NOT_READY) /\ i # Set(OFF)
    BY <1>2, NotPolling
  <2>2. Radio(i)
    BY <2>1 DEF Radio, Initializing
  <2> QED
    BY <1>0, <1>4, <2>1, <2>2 DEF RadioInv, On, i
<1>13. RadioInv'
  <2>1. \/ sState' # SIM_NOT_READY
        \/ Radio(i) /\ \A k \in DOMAIN <<d>> : ~Radio(<<d>>[k])
    BY <1>2, <1>3, <1>4, <1>6, <1>7, <1>12
  <2> QED
    BY <1>0, <1>4, <1>6, <2>1, RadioKept DEF i
<1>14. PollInv'
  <2>1. sState' = SIM_NOT_READY => Owes(d)
    BY <1>2, <1>3, <1>5, <1>7, <1>12 DEF Owes
  <2> QED
    BY <1>0, <1>4, <1>u, <2>1, ThreadSets, PollKept
<1>15. OpenInv'
  BY <1>2, <1>3, <1>7, <1>u DEF OpenInv
<1>16. PowerInv'
  BY <1>2, <1>3, <1>7, <1>u DEF PowerInv, PowersOff
<1>17. CallsInv'
  BY <1>4, <1>0, <1>6, <1>u, CallsSame, CallsKept
<1>18. MainInv'
  <2>1. \A r \in Sessions : work'[r] = work[r]
    BY <1>4, ThreadSets
  <2> QED
    BY <1>0, <1>3, <1>u, <2>1, MainKept
<1> QED
  BY <1>9, <1>10, <1>11, <1>13, <1>14, <1>15, <1>16, <1>17, <1>18 DEF RefInv

-----------------------------------------------------------------------------
(* What onRequest starts with. *)

\* What the command thread may take up for a request r, or for none, when it has
\* nothing to do: the radio and the calls may not be touched behind its back.
Fit(r, ins) ==
    /\ Stack(ins) /\ \A k \in DOMAIN ins : Of(r, ins[k])
    /\ (r # NoRequest /\ r.request # "SET_NETWORK_SELECTION_AUTOMATIC") =>
          \E k \in DOMAIN ins : Answering(ins[k])
    /\ \A k, l \in DOMAIN ins : Radio(ins[k]) /\ Radio(ins[l]) => k = l
    /\ \A k \in DOMAIN ins : ins[k] = Set(OFF) => k = 1
    /\ (\E k \in DOMAIN ins : Radio(ins[k])) => sState # SIM_NOT_READY \/ ins[1] = Set(OFF)
    /\ (r.request = "RADIO_POWER" /\ \E k \in DOMAIN ins : Success(ins[k])) =>
          IF r.parcel[2] = 0 THEN sState \in {OFF, UNAVAILABLE} ELSE sState # OFF
    /\ \A k \in DOMAIN ins : PowersOff(r) => ins[k].op # "changed"
    /\ \A k \in DOMAIN ins : GetsCalls(ins[k]) => ins = <<At("requestGetCurrentCalls", calls.incoming)>>

LEMMA PlainFits ==
    ASSUME NEW r \in Requests, r.request # "RADIO_POWER", r.request \notin OemHooks, NEW ins,
           Plainly(r.request, ins)
    PROVE  Fit(r, ins)
<1>1. r # NoRequest /\ ~PowersOff(r)
  BY RequestIs DEF PowersOff
<1>2. ASSUME NEW k \in DOMAIN ins
      PROVE  Of(r, ins[k]) /\ ~GetsCalls(ins[k]) /\ ins[k] # Set(OFF) /\ ~Radio(ins[k])
  <2>1. CASE Marshals(r.request, ins[k])
    <3>1. ins[k].op = "complete"
      BY <2>1 DEF Marshals
    <3>2. Of(r, ins[k])
      BY <1>1, <2>1 DEF Of, OfRequest, Echoes
    <3> QED
      BY <3>1, <3>2 DEF GetsCalls, Set, Radio, Initializing, At, Call
  <2>2. CASE Handles(r.request, ins[k]) /\ ~GetsCalls(ins[k])
    <3>1. ins[k].op = "at" /\ ~Radio(ins[k])
      BY <2>2, HandlesIs
    <3> QED
      BY <1>1, <2>2, <3>1 DEF Of, OfRequest, Set
  <2>3. CASE ins[k] \in {Segfault, Later("sendCallStateChanged")}
    <3>1. ins[k].op \in {"segfault", "later"}
      BY <2>3 DEF Segfault, Later
    <3> QED
      BY <1>1, <2>3, <3>1 DEF Of, OfRequest, GetsCalls, Set, Radio, Initializing, At, Call
  <2> QED
    BY <2>1, <2>2, <2>3 DEF Plainly
<1> QED
  BY <1>1, <1>2 DEF Fit, Plainly

LEMMA EndsFit ==
    ASSUME NEW r \in Requests, r.request \notin OemHooks, NEW e \in {0, 1, 2, 3, 6},
           (r.request = "RADIO_POWER" /\ e = 0) =>
              IF r.parcel[2] = 0 THEN sState \in {OFF, UNAVAILABLE} ELSE sState # OFF
    PROVE  Fit(r, <<Done(e, Null, 0)>>)
<1> DEFINE d == Done(e, Null, 0)
<1>1. Marshals(r.request, d) /\ d.op = "complete" /\ d.e = e
  BY NullFrame, Ops
<1>2. r # NoRequest
  BY RequestIs
<1> HIDE DEF d
<1>3. Of(r, d) /\ Answering(d)
  BY <1>1, <1>2 DEF Of, OfRequest, Echoes, Answering
<1>4. ~Radio(d) /\ ~GetsCalls(d) /\ d # Set(OFF) /\ (Success(d) => e = 0)
  BY <1>1, RadioIs, Ops, Consts DEF GetsCalls, Success
<1>5. Stack(<<d>>) /\ DOMAIN <<d>> = {1} /\ <<d>>[1] = d
  BY Tuples
<1>6. Fit(r, <<d>>)
  BY <1>1, <1>3, <1>4, <1>5 DEF Fit
<1> QED
  BY <1>6 DEF d

\* The same of an OEM hook, when it fails.
LEMMA FailureFits ==
    ASSUME NEW r \in Requests, NEW e \in {1, 2, 3, 6}
    PROVE  Fit(r, <<Done(e, Null, 0)>>)
<1> DEFINE d == Done(e, Null, 0)
<1>1. Marshals(r.request, d) /\ d.op = "complete" /\ d.e = e
  BY NullFrame, Ops
<1>2. r # NoRequest
  BY RequestIs
<1> HIDE DEF d
<1>3. Of(r, d) /\ Answering(d)
  BY <1>1, <1>2, Consts DEF Of, OfRequest, Echoes, Answering
<1>4. ~Radio(d) /\ ~GetsCalls(d) /\ d # Set(OFF) /\ ~Success(d)
  BY <1>1, RadioIs, Ops, Consts DEF GetsCalls, Success
<1>5. Stack(<<d>>) /\ DOMAIN <<d>> = {1} /\ <<d>>[1] = d
  BY Tuples
<1>6. Fit(r, <<d>>)
  BY <1>1, <1>3, <1>4, <1>5 DEF Fit
<1> QED
  BY <1>6 DEF d

\* A parcel is its length and that many values.
LEMMA Reparcelled ==
    ASSUME NEW p \in Seq(Values), p[1] \in Nat, Len(p) = p[1] + 1
    PROVE  LET data == ReadMany(p, 1, p[1])
           IN  /\ data \in Seq(Values) /\ Len(data) = p[1]
               /\ <<p[1]>> \o data = p /\ [k \in 1..p[1] |-> data[k]] = data
<1> DEFINE n == p[1]
           data == ReadMany(p, 1, n)
<1>1. DOMAIN p = 1..(n + 1) /\ n \in Nat /\ \A k \in 1..(n + 1) : p[k] \in Values
  BY LenProperties, ElementOfSeq
<1>2. data = [k \in 1..n |-> p[1 + k]]
  <2>1. \A k \in 1..n : Read(p, 1 + k) = p[1 + k]
    <3> HIDE DEF n
    <3> QED
      BY <1>1 DEF Read
  <2>2. data = [k \in 1..n |-> Read(p, 1 + k)]
    BY DEF ReadMany
  <2> HIDE DEF data, n
  <2> QED
    BY <2>1, <2>2
<1>3. data \in Seq(Values) /\ Len(data) = n
  <2> HIDE DEF data, n
  <2>1. \A k \in 1..n : p[1 + k] \in Values
    BY <1>1
  <2>2. [k \in 1..n |-> p[1 + k]] \in Seq(Values)
    BY <1>1, <2>1, IsASeq
  <2>3. Len([k \in 1..n |-> p[1 + k]]) = n
    BY <1>1
  <2> QED
    BY <1>2, <2>2, <2>3
<1>4. [k \in 1..n |-> data[k]] = data
  BY <1>2
<1> DEFINE q == <<n>> \o data
<1>5. <<n>> \in Seq(Values) /\ Len(<<n>>) = 1 /\ <<n>>[1] = n
  BY <1>1 DEF Values
<1>6. \A k \in 1..n : data[k] = p[1 + k]
  BY <1>2
<1> HIDE DEF data, n
<1>7. /\ q \in Seq(Values) /\ Len(q) = 1 + n
      /\ \A k \in 1..(1 + n) : q[k] = IF k <= 1 THEN <<n>>[k] ELSE data[k - 1]
  BY <1>3, <1>5, ConcatProperties
<1>8. \A k \in 1..(n + 1) : q[k] = p[k]
  <2>1. \A k \in 1..(n + 1) : k <= 1 => k = 1
    BY <1>1
  <2>2. \A k \in 1..(n + 1) : ~(k <= 1) => k - 1 \in 1..n /\ 1 + (k - 1) = k
    BY <1>1
  <2> QED
    BY <1>1, <1>5, <1>6, <1>7, <2>1, <2>2 DEF n
<1> HIDE DEF q
<1>9. q = p
  BY <1>1, <1>7, <1>8, SeqEqual DEF n
<1> QED
  BY <1>3, <1>4, <1>9 DEF q, n, data

LEMMA EchoOf ==
    ASSUME NEW r \in Requests, r.request \in OemHooks
    PROVE  LET d == dispatchFunction(r.request, r.parcel)
               i == Done(RIL_E_SUCCESS, d.data, ElementSize * d.len)
           IN  Marshals(r.request, i) /\ Echoes(r, i)
<1> DEFINE p == r.parcel
           d == dispatchFunction(r.request, r.parcel)
           i == Done(RIL_E_SUCCESS, d.data, ElementSize * d.len)
           frame == AnswerFrame(r.request, i.e, i.response, i.len)
<1>1. p \in Seq(Values) /\ (p = <<-1>> \/ (p[1] \in Nat /\ Len(p) = p[1] + 1))
  BY RequestIs DEF Sendable, OemHooks, Values
<1>2. /\ r.request = "OEM_HOOK_STRINGS" => d = dispatchStrings(p)
      /\ r.request = "OEM_HOOK_RAW" => d = dispatchRaw(p)
  BY DispatchOf
<1>3. i.e = RIL_E_SUCCESS /\ i.response = d.data /\ i.len = ElementSize * d.len
  BY Ops
<1>f. Marshals(r.request, Done(RIL_E_SUCCESS, d.data, ElementSize * d.len)) = Marshals(r.request, i)
  OBVIOUS
<1> HIDE DEF p, d
<1>4. CASE r.request = "OEM_HOOK_STRINGS" /\ p = <<-1>>
  <2>1. d = [calls |-> TRUE, data |-> Null, len |-> 0]
    BY <1>2, <1>4 DEF dispatchStrings, Calls
  <2>2. i = Done(0, Null, 0)
    BY <2>1, Consts
  <2>3. Marshals(r.request, i)
    BY <2>2, NullFrame
  <2>4. frame = <<0, 0>>
    BY <1>3, <2>1, Consts DEF AnswerFrame, RESPONSE_SOLICITED
  <2>5. SubSeq(frame, 3, Len(frame)) = <<>>
    <3> HIDE DEF frame
    <3>1. frame \in Seq({0}) /\ Len(frame) = 2
      BY <2>4
    <3>2. SubSeq(frame, 3, Len(frame)) \in Seq({0}) /\ Len(SubSeq(frame, 3, Len(frame))) = 0
      BY <3>1, SubSeqProperties
    <3> QED
      BY <3>2, EmptySeq
  <2> QED
    BY <1>4, <2>3, <2>5 DEF Echoes, p, d
<1>5. CASE r.request = "OEM_HOOK_RAW" /\ p = <<-1>>
  <2>1. d = [calls |-> TRUE, data |-> ReadMany(p, 1, 0), len |-> 0]
    BY <1>2, <1>5 DEF dispatchRaw, Calls
  <2>2. ReadMany(p, 1, 0) \in Seq(Values) /\ Len(ReadMany(p, 1, 0)) = 0
    <3> DEFINE read(k) == Read(p, 1 + k)
    <3>1. ReadMany(p, 1, 0) = [k \in 1..0 |-> read(k)]
      BY DEF ReadMany
    <3> HIDE DEF read
    <3>2. [k \in 1..0 |-> read(k)] \in Seq(Values) /\ Len([k \in 1..0 |-> read(k)]) = 0
      OBVIOUS
    <3> QED
      BY <3>1, <3>2
  <2>3. d.data = <<>> /\ d.len = 0
    BY <2>1, <2>2, EmptySeq
  <2>4. <<>> # Null /\ <<>> \in Seq(Values) /\ Len(<<>>) = 0
    BY Consts, EmptySeq
  <2>5. responseFunction(r.request, d.data, ElementSize * d.len) = Writes(<<0>>)
    <3>1. responseRaw(<<>>, ElementSize * 0) = Writes(<<0>> \o <<>>)
      BY <2>4, Raw
    <3>2. <<0>> \in Seq({0})
      OBVIOUS
    <3>3. <<0>> \o <<>> = <<0>>
      BY <3>2, ConcatEmptySeq
    <3> QED
      BY <1>5, <2>3, <3>1, <3>3, ResponseOf
  <2>6. <<0>> \in Seq(Values)
    BY DEF Values
  <2>7. Marshals(r.request, i) /\ SubSeq(frame, 3, Len(frame)) = <<0>>
    <3> DEFINE request == r.request
               data == d.data
               len == ElementSize * d.len
               out == <<0>>
    <3>1. data # Null /\ out \in Seq(Values) /\ responseFunction(request, data, len) = Writes(out)
      BY <2>3, <2>4, <2>5, <2>6
    <3> HIDE DEF request, data, len, out
    <3>2. /\ Marshals(request, Done(RIL_E_SUCCESS, data, len))
          /\ LET f == AnswerFrame(request, RIL_E_SUCCESS, data, len)
              IN  SubSeq(f, 3, Len(f)) = out
      BY <3>1, Framed
    <3> QED
      BY <1>3, <3>2 DEF request, data, len, out
  <2> QED
    BY <1>5, <2>7 DEF Echoes, p, d
<1>6. CASE p[1] \in Nat /\ Len(p) = p[1] + 1
  <2> DEFINE data == ReadMany(p, 1, p[1])
             n == p[1]
  <2>1. /\ data \in Seq(Values) /\ Len(data) = n /\ <<n>> \o data = p
        /\ [k \in 1..n |-> data[k]] = data /\ n \in Nat
    BY <1>1, <1>6, Reparcelled
  <2>2. p # <<-1>>
    BY <1>6
  <2>3. d = [calls |-> TRUE, data |-> data, len |-> n]
    <3>1. ~(Len(p) < 1) /\ p[1] # -1 /\ ~(Len(p) < 1 + p[1])
      BY <1>6
    <3> QED
      BY <1>2, <3>1 DEF dispatchRaw, dispatchStrings, Calls, OemHooks
  <2>4. data # Null /\ d.data = data /\ d.len = n /\ p \in Seq(Values)
    BY <1>1, <2>1, <2>3, Consts
  <2>5. \A k \in 1..n : data[k] \in Values
    BY <2>1, ElementOfSeq
  <2> HIDE DEF data, n
  <2>6. responseFunction(r.request, data, ElementSize * n) = Writes(p)
    <3>1. CASE r.request = "OEM_HOOK_RAW"
      <4>1. responseRaw(data, ElementSize * n) = Writes(<<n>> \o data)
        BY <2>1, <2>4, Raw
      <4>2. responseFunction(r.request, data, ElementSize * n) = responseRaw(data, ElementSize * n)
        BY <3>1, ResponseOf
      <4> QED
        BY <2>1, <4>1, <4>2
    <3>2. CASE r.request = "OEM_HOOK_STRINGS"
      <4>1. Array(data, ElementSize * n) = Writes(<<n>> \o [k \in 1..n |-> data[k]])
        BY <2>1, <2>4, <2>5, Arrays
      <4>2. responseFunction(r.request, data, ElementSize * n) = Array(data, ElementSize * n)
        BY <3>2, ResponseOf
      <4> QED
        BY <2>1, <4>1, <4>2
    <3> QED
      BY <3>1, <3>2 DEF OemHooks
  <2>7. Marshals(r.request, i) /\ SubSeq(frame, 3, Len(frame)) = p
    <3> DEFINE request == r.request
               len == ElementSize * n
    <3>1. data # Null /\ p \in Seq(Values) /\ responseFunction(request, data, len) = Writes(p)
      BY <2>4, <2>6
    <3> HIDE DEF request, len
    <3>2. /\ Marshals(request, Done(RIL_E_SUCCESS, data, len))
          /\ LET f == AnswerFrame(request, RIL_E_SUCCESS, data, len)
              IN  SubSeq(f, 3, Len(f)) = p
      BY <3>1, Framed
    <3> QED
      BY <1>3, <2>4, <3>2 DEF request, len
  <2> QED
    BY <2>2, <2>7 DEF Echoes, p, d
<1> QED
  BY <1>1, <1>4, <1>5, <1>6 DEF OemHooks

LEMMA OneCommand ==
    ASSUME NEW request, NEW fn, NEW m, Handles(request, At(fn, m)), fn # "requestGetCurrentCalls"
    PROVE  Plainly(request, <<At(fn, m)>>)
<1>1. ~GetsCalls(At(fn, m))
  BY Ops DEF GetsCalls
<1> QED
  BY <1>1, OneMore

\* Most handlers send a command or fail.
LEMMA StartsPlain ==
    ASSUME NEW request, NEW data, NEW len, NEW ins,
           \/ ins = requestDial(Start) /\ request = "DIAL"
           \/ ins = requestHangup(Start) /\ request = "HANGUP"
           \/ ins = Ignored(Start) /\ request \in IgnoredRequests
           \/ ins = SeparateConnection(data[1], Start) /\ request = "SEPARATE_CONNECTION"
           \/ ins = requestSignalStrength(Start) /\ request = "SIGNAL_STRENGTH"
           \/ ins = requestRegistrationState(Start)
                /\ request \in {"REGISTRATION_STATE", "GPRS_REGISTRATION_STATE"}
           \/ ins = requestOperator(Start) /\ request = "OPERATOR"
           \/ ins = requestSendSMS(Start) /\ request = "SEND_SMS"
           \/ ins = requestSetupDataCall(Null, Start) /\ request = "SETUP_DATA_CALL"
           \/ ins = requestSMSAcknowledge(data, Start) /\ request = "SMS_ACKNOWLEDGE"
           \/ ins = GetNumber(Start) /\ request \in {"GET_IMSI", "GET_IMEI", "CANCEL_USSD"}
           \/ ins = requestSIM_IO(Start) /\ request = "SIM_IO"
           \/ ins = SetNetworkSelectionAutomatic(Start) /\ request = "SET_NETWORK_SELECTION_AUTOMATIC"
           \/ ins = requestDataCallList /\ request = "DATA_CALL_LIST"
           \/ ins = requestQueryNetworkSelectionMode(Start) /\ request = "QUERY_NETWORK_SELECTION_MODE"
           \/ ins = requestWriteSmsToSim(Start) /\ request = "WRITE_SMS_TO_SIM"
           \/ ins = DeleteSmsOnSim(Start) /\ request = "DELETE_SMS_ON_SIM"
           \/ ins = requestEnterSimPin(len, Start) /\ request \in PinRequests
    PROVE  Plainly(request, ins)
<1>1. /\ Plainly(request, <<Succeeds>>) /\ Plainly(request, <<Fails>>)
      /\ Plainly(request, <<Done(RIL_E_PASSWORD_INCORRECT, Null, 0)>>)
  BY PlainEnds
<1>2. ASSUME NEW fn, NEW m, ins = <<At(fn, m)>>, fn # "requestGetCurrentCalls",
             Handles(request, At(fn, m))
      PROVE  Plainly(request, ins)
  BY <1>2, OneCommand
<1>3. CASE ins \in {<<Fails>>, <<Done(RIL_E_PASSWORD_INCORRECT, Null, 0)>>}
  BY <1>1, <1>3
<1>4. ASSUME ins \notin {<<Fails>>, <<Done(RIL_E_PASSWORD_INCORRECT, Null, 0)>>}
      PROVE  \E fn, m : /\ ins = <<At(fn, m)>> /\ fn # "requestGetCurrentCalls"
                        /\ Handles(request, At(fn, m))
  <2> DEFINE ok(fn, m) == ins = <<At(fn, m)>> /\ fn # "requestGetCurrentCalls" /\ Handles(request, At(fn, m))
  <2>0. ASSUME NEW fn, NEW m, ins = <<At(fn, m)>>, fn # "requestGetCurrentCalls", Handles(request, At(fn, m))
        PROVE  \E f, n : ok(f, n)
    BY <2>0
  <2>1. ASSUME ins = requestDial(Start), request = "DIAL" PROVE ok("requestDial", Null)
    BY <2>1, Ops DEF requestDial, Handles
  <2>2. ASSUME ins = requestHangup(Start), request = "HANGUP" PROVE ok("requestHangup", Null)
    BY <2>2, Ops DEF requestHangup, Handles
  <2>3. ASSUME ins = Ignored(Start), request \in IgnoredRequests PROVE ok("Ignored", Null)
    BY <2>3, Ops DEF Ignored, Handles
  <2>4. ASSUME ins = SeparateConnection(data[1], Start), request = "SEPARATE_CONNECTION"
        PROVE  ok("Ignored", Null)
    BY <1>4, <2>4, Ops DEF SeparateConnection, Handles
  <2>5. ASSUME ins = requestSignalStrength(Start), request = "SIGNAL_STRENGTH"
        PROVE  ok("requestSignalStrength", Null)
    BY <2>5, Ops DEF requestSignalStrength, Handles
  <2>6. ASSUME ins = requestRegistrationState(Start),
               request \in {"REGISTRATION_STATE", "GPRS_REGISTRATION_STATE"}
        PROVE  ok("requestRegistrationState", Null)
    BY <2>6, Ops DEF requestRegistrationState, Handles
  <2>7. ASSUME ins = requestOperator(Start), request = "OPERATOR" PROVE ok("requestOperator", Null)
    BY <2>7, Ops DEF requestOperator, Handles
  <2>8. ASSUME ins = requestSendSMS(Start), request = "SEND_SMS" PROVE ok("requestSendSMS", Null)
    BY <2>8, Ops DEF requestSendSMS, Handles
  <2>9. ASSUME ins = requestSetupDataCall(Null, Start), request = "SETUP_DATA_CALL"
        PROVE  ok("requestSetupDataCall", "qmi")
    BY <2>9, Ops DEF requestSetupDataCall, Handles
  <2>10. ASSUME ins = requestSMSAcknowledge(data, Start), request = "SMS_ACKNOWLEDGE"
         PROVE  ok("requestSMSAcknowledge", data)
    BY <1>4, <2>10, Ops DEF requestSMSAcknowledge, Handles
  <2>11. ASSUME ins = GetNumber(Start), request \in {"GET_IMSI", "GET_IMEI", "CANCEL_USSD"}
         PROVE  ok("GetNumber", Null)
    BY <2>11, Ops DEF GetNumber, Handles
  <2>12. ASSUME ins = requestSIM_IO(Start), request = "SIM_IO" PROVE ok("requestSIM_IO", Null)
    BY <2>12, Ops DEF requestSIM_IO, Handles
  <2>13. ASSUME ins = SetNetworkSelectionAutomatic(Start), request = "SET_NETWORK_SELECTION_AUTOMATIC"
         PROVE  ok("SetNetworkSelectionAutomatic", Null)
    BY <2>13, Ops DEF SetNetworkSelectionAutomatic, Handles
  <2>14. ASSUME ins = requestDataCallList, request = "DATA_CALL_LIST"
         PROVE  ok("requestOrSendDataCallList", [t |-> "request", contexts |-> Null])
    <3>1. IsList(ListOf("request", Null), "request")
      BY ListFields
    <3>2. Handles(request, ListOf("request", Null))
      BY <2>14, <3>1, ListFields DEF Handles, IsList, ListOf, At
    <3> QED
      BY <2>14, <3>2 DEF requestDataCallList, requestOrSendDataCallList, ListOf
  <2>15. ASSUME ins = requestQueryNetworkSelectionMode(Start), request = "QUERY_NETWORK_SELECTION_MODE"
         PROVE  ok("requestQueryNetworkSelectionMode", Null)
    BY <2>15, Ops DEF requestQueryNetworkSelectionMode, Handles
  <2>16. ASSUME ins = requestWriteSmsToSim(Start), request = "WRITE_SMS_TO_SIM"
         PROVE  ok("requestWriteSmsToSim", Null)
    BY <2>16, Ops DEF requestWriteSmsToSim, Handles
  <2>17. ASSUME ins = DeleteSmsOnSim(Start), request = "DELETE_SMS_ON_SIM"
         PROVE  ok("DeleteSmsOnSim", Null)
    BY <2>17, Ops DEF DeleteSmsOnSim, Handles
  <2>18. ASSUME ins = requestEnterSimPin(len, Start), request \in PinRequests
         PROVE  ok("requestEnterSimPin", len)
    BY <1>4, <2>18, Ops DEF requestEnterSimPin, Handles
  <2> HIDE DEF ok
  <2>19. \E f, n : ok(f, n)
    BY <2>1, <2>2, <2>3, <2>4, <2>5, <2>6, <2>7, <2>8, <2>9, <2>10, <2>11, <2>12, <2>13,
       <2>14, <2>15, <2>16, <2>17, <2>18, Zenon
  <2> QED
    BY <2>19 DEF ok
<1> QED
  BY <1>2, <1>3, <1>4

LEMMA StatusFits ==
    ASSUME NEW r \in Requests, r.request = "GET_SIM_STATUS"
    PROVE  Fit(r, getSIMStatus("getCardStatus", Start))
<1> DEFINE ins == getSIMStatus("getCardStatus", Start)
<1>1. r.request # "RADIO_POWER" /\ r.request \notin OemHooks
  BY DEF OemHooks
<1>2. CASE ins = SimStatusKnown("getCardStatus", "NOT_READY")
  <2>1. "NOT_READY" \in SimStatuses
    BY DEF SimStatuses
  <2> QED
    BY <1>1, <1>2, <2>1, StatusReported, PlainFits
<1>3. CASE ins = <<At("getSIMStatus", "getCardStatus")>>
  <2> DEFINE i == At("getSIMStatus", "getCardStatus")
  <2>1. Handles("GET_SIM_STATUS", i)
    BY Ops DEF Handles
  <2>2. i.fn = "getSIMStatus"
    BY Ops
  <2>3. ~GetsCalls(i)
    BY <2>2 DEF GetsCalls
  <2>4. Plainly("GET_SIM_STATUS", <<i>>)
    BY <2>1, <2>3, OneMore
  <2> QED
    BY <1>1, <1>3, <2>4, PlainFits
<1> QED
  BY <1>2, <1>3 DEF getSIMStatus

LEMMA CallsFit ==
    ASSUME RefInv, NEW r \in Requests, r.request = "GET_CURRENT_CALLS"
    PROVE  Fit(r, requestGetCurrentCalls(calls.incoming, Start))
<1> DEFINE i == At("requestGetCurrentCalls", calls.incoming)
<1>1. requestGetCurrentCalls(calls.incoming, Start) = <<i>>
  BY DEF requestGetCurrentCalls
<1>2. i.op = "at" /\ i.fn = "requestGetCurrentCalls" /\ i.memo = calls.incoming /\ calls.incoming \in Int
      /\ i = At(i.fn, i.memo)
  BY Ops DEF RefInv, CallsInv
<1>3. Stack(<<i>>) /\ DOMAIN <<i>> = {1} /\ <<i>>[1] = i
  BY Tuples
<1>4. r # NoRequest /\ ~PowersOff(r) /\ r.request # "RADIO_POWER"
  BY RequestIs DEF PowersOff
<1> HIDE DEF i
<1>5. Handles(r.request, i)
  BY <1>2 DEF Handles
<1>6. Of(r, i) /\ Answering(i) /\ ~Radio(i) /\ i # Set(OFF)
  BY <1>2, <1>4, <1>5, HandlesIs, Ops DEF Of, OfRequest, Answering
<1>7. Fit(r, <<i>>)
  BY <1>3, <1>4, <1>6 DEF Fit, i
<1> QED
  BY <1>1, <1>7

LEMMA PowerFits ==
    ASSUME RefInv, NEW r \in Requests, r.request = "RADIO_POWER", sState # UNAVAILABLE
    PROVE  Fit(r, requestRadioPower(dispatchFunction(r.request, r.parcel).data, Start))
<1> DEFINE data == dispatchFunction(r.request, r.parcel).data
           i == PowerCommand(r.parcel)
           p == r.parcel[2]
<1>1. /\ i = At("requestRadioPower", data) /\ i.memo[1] = p /\ p \in Nat /\ data[1] = p
      /\ i.op = "at" /\ i.fn = "requestRadioPower"
  <2>1. data = ReadMany(r.parcel, 1, r.parcel[1]) /\ p \in Nat /\ i.memo[1] = p
    <3>1. /\ dispatchFunction(r.request, r.parcel) = Calls(ReadMany(r.parcel, 1, r.parcel[1]), r.parcel[1])
          /\ p \in Nat /\ i.memo[1] = p
      BY PowerParcel
    <3>2. \A x, y : Calls(x, y).data = x
      BY DEF Calls
    <3> QED
      BY <3>1, <3>2
  <2>2. i = At("requestRadioPower", data) /\ i.memo = data
    BY <2>1, Ops DEF PowerCommand
  <2> QED
    BY <2>1, <2>2, Ops
<1>2. r # NoRequest /\ r.request \notin OemHooks
  BY RequestIs DEF OemHooks
<1> HIDE DEF data, p, i
<1>3. CASE (p = 0 /\ sState # OFF) \/ (p > 0 /\ sState = OFF)
  <2>1. requestRadioPower(data, Start) = <<i>>
    BY <1>1, <1>3 DEF requestRadioPower
  <2>2. Stack(<<i>>) /\ DOMAIN <<i>> = {1} /\ <<i>>[1] = i
    BY Tuples
  <2>3. Of(r, i)
    BY <1>2 DEF Of, OfRequest, Powering, i
  <2>4. i # PollCommand /\ i # Set(OFF) /\ ~GetsCalls(i) /\ ~Success(i) /\ i.op # "changed"
    BY <1>1, Ops DEF PollCommand, GetsCalls, Success
  <2>5. Answering(i)
    BY <1>1, <2>4 DEF Answering
  <2>6. Radio(i) => sState # SIM_NOT_READY
    <3>1. Radio(i) => p > 0
      BY <1>1, Ops DEF Radio, Initializing
    <3> QED
      BY <1>1, <1>3, <3>1 DEF OFF, SIM_NOT_READY
  <2>7. Fit(r, <<i>>)
    BY <2>2, <2>3, <2>4, <2>5, <2>6 DEF Fit
  <2> QED
    BY <2>1, <2>7 DEF data
<1>4. CASE ~((p = 0 /\ sState # OFF) \/ (p > 0 /\ sState = OFF))
  <2>1. requestRadioPower(data, Start) = <<Done(0, Null, 0)>>
    BY <1>1, <1>4, Consts DEF requestRadioPower, Succeeds
  <2>2. IF r.parcel[2] = 0 THEN sState \in {OFF, UNAVAILABLE} ELSE sState # OFF
    BY <1>1, <1>4 DEF p
  <2>3. Fit(r, <<Done(0, Null, 0)>>)
    BY <1>2, <2>2, EndsFit
  <2> QED
    BY <2>1, <2>3 DEF data
<1> QED
  BY <1>3, <1>4

LEMMA EchoFits ==
    ASSUME NEW r \in Requests, r.request \in OemHooks
    PROVE  LET d == dispatchFunction(r.request, r.parcel)
           IN  Fit(r, <<Done(RIL_E_SUCCESS, d.data, ElementSize * d.len)>>)
<1> DEFINE d == dispatchFunction(r.request, r.parcel)
           i == Done(RIL_E_SUCCESS, d.data, ElementSize * d.len)
<1>1. Marshals(r.request, i) /\ Echoes(r, i)
  BY EchoOf
<1>2. i.op = "complete" /\ r # NoRequest /\ r.request # "RADIO_POWER"
  BY RequestIs, Ops DEF OemHooks
<1>3. Stack(<<i>>) /\ DOMAIN <<i>> = {1} /\ <<i>>[1] = i
  BY Tuples
<1> HIDE DEF i
<1>4. Of(r, i) /\ Answering(i) /\ ~Radio(i) /\ i # Set(OFF) /\ ~GetsCalls(i) /\ i.op # "changed"
  BY <1>1, <1>2, RadioIs, Ops DEF Of, OfRequest, Answering, GetsCalls
<1>5. Fit(r, <<i>>)
  BY <1>2, <1>3, <1>4 DEF Fit
<1> QED
  BY <1>5 DEF i

Available(request) ==
    ~(\/ sState = UNAVAILABLE /\ request # "GET_SIM_STATUS"
      \/ sState = OFF /\ request \notin {"RADIO_POWER", "GET_SIM_STATUS"})
LEMMA Starts ==
    ASSUME NEW request, NEW data, NEW len
    PROVE  LET ins == onRequest(request, data, len)
           IN  /\ ~Available(request) => ins = <<Done(1, Null, 0)>>
               /\ Available(request) =>
                    /\ request = "GET_SIM_STATUS" => ins = getSIMStatus("getCardStatus", Start)
                    /\ request = "GET_CURRENT_CALLS" => ins = requestGetCurrentCalls(calls.incoming, Start)
                    /\ request = "RADIO_POWER" => ins = requestRadioPower(data, Start)
                    /\ request \in OemHooks => ins = <<Done(RIL_E_SUCCESS, data, ElementSize * len)>>
                    /\ request \notin OemHooks \union {"GET_SIM_STATUS", "GET_CURRENT_CALLS", "RADIO_POWER"} =>
                         \/ ins \in {<<Done(6, Null, 0)>>, <<Done(0, Null, 0)>>}
                         \/ Plainly(request, ins)
<1> DEFINE ins == onRequest(request, data, len)
<1> USE DEF IgnoredRequests, PinRequests, NoCommandRequests, OemHooks
<1>1. ASSUME ~Available(request) PROVE ins = <<Done(1, Null, 0)>>
  BY <1>1, Consts DEF onRequest, Available
<1>2. ASSUME Available(request), request = "GET_SIM_STATUS" PROVE ins = getSIMStatus("getCardStatus", Start)
  BY <1>2 DEF onRequest, Available
<1>3. ASSUME Available(request), request = "GET_CURRENT_CALLS"
      PROVE  ins = requestGetCurrentCalls(calls.incoming, Start)
  BY <1>3 DEF onRequest, Available
<1>4. ASSUME Available(request), request = "RADIO_POWER" PROVE ins = requestRadioPower(data, Start)
  BY <1>4 DEF onRequest, Available
<1>5. ASSUME Available(request), request \in OemHooks
      PROVE  ins = <<Done(RIL_E_SUCCESS, data, ElementSize * len)>>
  <2>1. CASE request = "OEM_HOOK_RAW"
    BY <1>5, <2>1 DEF onRequest, Available
  <2>2. CASE request = "OEM_HOOK_STRINGS"
    BY <1>5, <2>2 DEF onRequest, Available
  <2> QED
    BY <1>5, <2>1, <2>2
<1>6. ASSUME Available(request),
             request \notin OemHooks \union {"GET_SIM_STATUS", "GET_CURRENT_CALLS", "RADIO_POWER"},
             ins \notin {<<Done(6, Null, 0)>>, <<Done(0, Null, 0)>>}
      PROVE  Plainly(request, ins)
  <2> DEFINE simple ==
           \/ ins = requestDial(Start) /\ request = "DIAL"
           \/ ins = requestHangup(Start) /\ request = "HANGUP"
           \/ ins = Ignored(Start) /\ request \in IgnoredRequests
           \/ ins = SeparateConnection(data[1], Start) /\ request = "SEPARATE_CONNECTION"
           \/ ins = requestSignalStrength(Start) /\ request = "SIGNAL_STRENGTH"
           \/ ins = requestRegistrationState(Start)
                /\ request \in {"REGISTRATION_STATE", "GPRS_REGISTRATION_STATE"}
           \/ ins = requestOperator(Start) /\ request = "OPERATOR"
           \/ ins = requestSendSMS(Start) /\ request = "SEND_SMS"
           \/ ins = requestSetupDataCall(Null, Start) /\ request = "SETUP_DATA_CALL"
           \/ ins = requestSMSAcknowledge(data, Start) /\ request = "SMS_ACKNOWLEDGE"
           \/ ins = GetNumber(Start) /\ request \in {"GET_IMSI", "GET_IMEI", "CANCEL_USSD"}
           \/ ins = requestSIM_IO(Start) /\ request = "SIM_IO"
           \/ ins = SetNetworkSelectionAutomatic(Start) /\ request = "SET_NETWORK_SELECTION_AUTOMATIC"
           \/ ins = requestDataCallList /\ request = "DATA_CALL_LIST"
           \/ ins = requestQueryNetworkSelectionMode(Start) /\ request = "QUERY_NETWORK_SELECTION_MODE"
           \/ ins = requestWriteSmsToSim(Start) /\ request = "WRITE_SMS_TO_SIM"
           \/ ins = DeleteSmsOnSim(Start) /\ request = "DELETE_SMS_ON_SIM"
           \/ ins = requestEnterSimPin(len, Start) /\ request \in PinRequests
  <2>0. Succeeds = Done(0, Null, 0) /\ RIL_E_REQUEST_NOT_SUPPORTED = 6
    BY Consts DEF Succeeds
  <2>1. simple
    BY <1>6, <2>0 DEF onRequest, Available
  <2> QED
    BY <2>1, StartsPlain
<1> QED
  BY <1>1, <1>2, <1>3, <1>4, <1>5, <1>6

LEMMA RequestFits ==
    ASSUME RefInv, NEW r \in Requests
    PROVE  LET d == dispatchFunction(r.request, r.parcel)
           IN  Fit(r, onRequest(r.request, d.data, d.len))
<1> DEFINE d == dispatchFunction(r.request, r.parcel)
           data == d.data
           len == d.len
           request == r.request
           ins == onRequest(request, data, len)
<1>1. CASE ~Available(request)
  <2>1. ins = <<Done(1, Null, 0)>>
    BY <1>1, Starts
  <2> QED
    BY <2>1, FailureFits
<1>2. CASE Available(request) /\ request = "GET_SIM_STATUS"
  <2>1. ins = getSIMStatus("getCardStatus", Start)
    BY <1>2, Starts
  <2> QED
    BY <1>2, <2>1, StatusFits
<1>3. CASE Available(request) /\ request = "GET_CURRENT_CALLS"
  <2>1. ins = requestGetCurrentCalls(calls.incoming, Start)
    BY <1>3, Starts
  <2> QED
    BY <1>3, <2>1, CallsFit
<1>4. CASE Available(request) /\ request = "RADIO_POWER"
  <2>1. ins = requestRadioPower(data, Start)
    BY <1>4, Starts
  <2>2. sState # UNAVAILABLE
    BY <1>4 DEF Available
  <2> QED
    BY <1>4, <2>1, <2>2, PowerFits
<1>5. CASE Available(request) /\ request \in OemHooks
  <2>1. ins = <<Done(RIL_E_SUCCESS, data, ElementSize * len)>>
    BY <1>5, Starts
  <2> QED
    BY <1>5, <2>1, EchoFits
<1>6. CASE Available(request) /\ request \notin OemHooks \union {"GET_SIM_STATUS", "GET_CURRENT_CALLS", "RADIO_POWER"}
  <2>1. ins \in {<<Done(6, Null, 0)>>, <<Done(0, Null, 0)>>} \/ Plainly(request, ins)
    BY <1>6, Starts
  <2>2. Fit(r, <<Done(6, Null, 0)>>) /\ Fit(r, <<Done(0, Null, 0)>>)
    BY <1>6, EndsFit
  <2>3. Plainly(request, ins) => Fit(r, ins)
    BY <1>6, PlainFits
  <2> QED
    BY <2>1, <2>2, <2>3
<1> QED
  BY <1>1, <1>2, <1>3, <1>4, <1>5, <1>6

-----------------------------------------------------------------------------
(* The command thread takes up something, or is done with a request. *)

LEMMA TakeStep ==
    ASSUME RefInv, work[E] = <<>>, NEW ins,
           work'[E] = ins /\ DOMAIN work' = Threads /\ \A t \in Threads : t # E => work'[t] = work[t],
           current' \in Requests \union {NoRequest}, answer' = NoAnswer, Fit(current', ins),
           calls' = calls \/ calls' = [calls EXCEPT !.incoming = -1],
           \A k \in DOMAIN ins : GetsCalls(ins[k]) /\ USE_TI_COMMANDS => calls'.incoming = -1,
           timers' \in [Callbacks -> 0..MaxTimers],
           \/ sState # SIM_NOT_READY
           \/ \E k \in DOMAIN ins : Owes(ins[k])
           \/ /\ timers'["initializeCallback"] = timers["initializeCallback"]
              /\ timers["pollSIMState"] > 0 => timers'["pollSIMState"] > 0,
           \/ timers'["initializeCallback"] = timers["initializeCallback"]
           \/ ins # <<>> /\ Head(ins).op = "set",
           UNCHANGED <<sState, s_closed, s_readerClosed, opens, main, reader, overtaken>>
    PROVE  RefInv'
<1>0. /\ TypeOK /\ CommandInv /\ AnswerInv /\ RadioInv /\ PollInv /\ OpenInv /\ PowerInv
      /\ CallsInv /\ MainInv
  BY DEF RefInv
<1>u. /\ sState' = sState /\ s_closed' = s_closed /\ s_readerClosed' = s_readerClosed
      /\ opens' = opens /\ main' = main /\ reader' = reader /\ overtaken' = overtaken
  OBVIOUS
<1>1. /\ work'[E] = ins /\ DOMAIN work' = Threads
      /\ \A t \in Threads : t # E => work'[t] = work[t]
  OBVIOUS
<1>2. /\ Stack(ins) /\ \A k \in DOMAIN ins : Of(current', ins[k])
      /\ (current' # NoRequest /\ current'.request # "SET_NETWORK_SELECTION_AUTOMATIC") =>
            \E k \in DOMAIN ins : Answering(ins[k])
      /\ \A k, l \in DOMAIN ins : Radio(ins[k]) /\ Radio(ins[l]) => k = l
      /\ \A k \in DOMAIN ins : ins[k] = Set(OFF) => k = 1
      /\ (\E k \in DOMAIN ins : Radio(ins[k])) => sState # SIM_NOT_READY \/ ins[1] = Set(OFF)
  BY Zenon DEF Fit
<1>3. /\ (current'.request = "RADIO_POWER" /\ \E k \in DOMAIN ins : Success(ins[k])) =>
            IF current'.parcel[2] = 0 THEN sState \in {OFF, UNAVAILABLE} ELSE sState # OFF
      /\ \A k \in DOMAIN ins : PowersOff(current') => ins[k].op # "changed"
      /\ \A k \in DOMAIN ins : GetsCalls(ins[k]) => ins = <<At("requestGetCurrentCalls", calls.incoming)>>
  BY Zenon DEF Fit
<1>4. /\ answer' = [frame |-> answer'.frame, count |-> answer'.count]
      /\ answer'.frame = <<>> /\ answer'.count = 0
  BY DEF NoAnswer
<1>5. TypeOK'
  <2>1. answer'.count \in 0..2
    BY <1>4
  <2> QED
    BY <1>0, <1>1, <1>u, <2>1 DEF TypeOK
<1>6. CommandInv'
  BY <1>1, <1>2 DEF CommandInv, On
<1>7. AnswerInv'
  BY <1>1, <1>2, <1>4 DEF AnswerInv, On
<1>8. RadioInv'
  BY <1>1, <1>2, <1>u DEF RadioInv, On
<1>9. PollInv'
  <2> SUFFICES ASSUME sState = SIM_NOT_READY, timers'["initializeCallback"] = 0,
                      ~(timers'["pollSIMState"] > 0)
               PROVE  \E t \in Threads : \E k \in DOMAIN work'[t] : Owes(work'[t][k])
    BY <1>u DEF PollInv, On
  <2>1. CASE \E k \in DOMAIN ins : Owes(ins[k])
    BY <1>1, <2>1, ThreadSets
  <2>2. CASE ~\E k \in DOMAIN ins : Owes(ins[k])
    <3>1. PICK t \in Threads : \E k \in DOMAIN work[t] : Owes(work[t][k])
      BY <1>0, <2>2 DEF PollInv, On
    <3>2. t # E
      <4>1. DOMAIN work[E] = {}
        BY Tuples
      <4> QED
        BY <3>1, <4>1
    <3> QED
      BY <1>1, <3>1, <3>2
  <2> QED
    BY <2>1, <2>2
<1>10. OpenInv'
  BY <1>0, <1>1, <1>u DEF OpenInv, Doing, Next_
<1>11. PowerInv'
  BY <1>1, <1>3, <1>4, <1>u DEF PowerInv, On
<1>12. CallsInv'
  <2>1. CallsOK' /\ (calls.repolls = 1 => calls.incoming = -1) /\ calls'.repolls = calls.repolls
        /\ calls.incoming \in Int
    BY <1>0 DEF CallsOK, CallsInv
  <2>2. ASSUME NEW k \in DOMAIN ins, GetsCalls(ins[k])
        PROVE  Len(ins) = 1 /\ ins[k].memo = calls.incoming
    <3> DEFINE a == At("requestGetCurrentCalls", calls.incoming)
    <3>1. ins = <<a>> /\ a.memo = calls.incoming
      BY <1>3, <2>2, Ops
    <3> HIDE DEF a
    <3>2. Len(ins) = 1 /\ DOMAIN ins = {1} /\ ins[1] = a
      BY <3>1
    <3> QED
      BY <3>1, <3>2
  <2> QED
    BY <1>1, <2>1, <2>2 DEF CallsInv, CallsOK, On
<1>13. MainInv'
  <2>1. \A r \in Sessions : work'[r] = work[r]
    BY <1>1, ThreadSets
  <2> QED
    BY <1>0, <1>u, <2>1, MainKept
<1> QED
  BY <1>5, <1>6, <1>7, <1>8, <1>9, <1>10, <1>11, <1>12, <1>13 DEF RefInv

LEMMA IdleIs ==
    ASSUME RefInv, work[E] = <<>>
    PROVE  /\ timers \in [Callbacks -> 0..MaxTimers] /\ current \in Requests \union {NoRequest}
           /\ current = NoRequest => answer = NoAnswer
           /\ DOMAIN work = Threads
  BY DEF RefInv, TypeOK, CommandInv

LEMMA RequestStep ==
    ASSUME RefInv, NEW r \in Requests, Request(r)
    PROVE  RefInv'
<1> DEFINE d == dispatchFunction(r.request, r.parcel)
           ins == onRequest(r.request, d.data, d.len)
<1>1. /\ work[E] = <<>> /\ current = NoRequest /\ current' = r
      /\ work' = [work EXCEPT ![E] = ins]
      /\ calls' = (IF USE_TI_COMMANDS /\ Doing(E, "at")' /\ Head(work'[E]).fn = "requestGetCurrentCalls"
                   THEN [calls EXCEPT !.incoming = -1] ELSE calls)
      /\ UNCHANGED <<sState, s_closed, s_readerClosed, opens, main, reader, timers, answer, overtaken>>
  BY DEF Request
<1>2. Fit(r, ins)
  BY RequestFits
<1> HIDE DEF ins
<1>3. answer' = NoAnswer /\ timers' = timers /\ timers \in [Callbacks -> 0..MaxTimers] /\ DOMAIN work = Threads
  BY <1>1, IdleIs
<1>4. work'[E] = ins /\ DOMAIN work' = Threads /\ \A t \in Threads : t # E => work'[t] = work[t]
  BY <1>1, <1>3, ThreadSets
<1>5. ASSUME NEW k \in DOMAIN ins, GetsCalls(ins[k]), USE_TI_COMMANDS
      PROVE  calls'.incoming = -1
  <2> DEFINE a == At("requestGetCurrentCalls", calls.incoming)
  <2>1. ins = <<a>> /\ a.op = "at" /\ a.fn = "requestGetCurrentCalls"
    BY <1>2, <1>5, Ops DEF Fit
  <2> HIDE DEF a
  <2>2. ins # <<>> /\ Head(ins) = a
    BY <2>1
  <2>3. Doing(E, "at")' /\ Head(work'[E]).fn = "requestGetCurrentCalls"
    BY <1>4, <2>1, <2>2 DEF Doing, Next_
  <2>4. calls' = [calls EXCEPT !.incoming = -1]
    BY <1>1, <1>5, <2>3
  <2> QED
    BY <2>4 DEF RefInv, CallsInv
<1>6. calls' = calls \/ calls' = [calls EXCEPT !.incoming = -1]
  BY <1>1
<1>7. current' \in Requests \union {NoRequest} /\ Fit(current', ins)
  BY <1>1, <1>2
<1>8. /\ timers' \in [Callbacks -> 0..MaxTimers]
      /\ timers'["initializeCallback"] = timers["initializeCallback"]
      /\ timers["pollSIMState"] > 0 => timers'["pollSIMState"] > 0
  BY <1>3
<1>9. UNCHANGED <<sState, s_closed, s_readerClosed, opens, main, reader, overtaken>>
  BY <1>1
<1> QED
  BY <1>1, <1>3, <1>4, <1>5, <1>6, <1>7, <1>8, <1>9, TakeStep

LEMMA ReturnStep ==
    ASSUME RefInv, Return
    PROVE  RefInv'
<1>1. /\ work[E] = <<>> /\ current' = NoRequest /\ answer' = NoAnswer /\ calls' = calls
      /\ timers' = timers /\ work' = work
      /\ UNCHANGED <<sState, s_closed, s_readerClosed, opens, main, reader, overtaken>>
  BY DEF Return
<1>2. /\ timers \in [Callbacks -> 0..MaxTimers] /\ work'[E] = <<>> /\ DOMAIN work' = Threads
      /\ \A t \in Threads : t # E => work'[t] = work[t]
  BY <1>1, IdleIs
<1>3. Fit(NoRequest, <<>>) /\ \A k \in DOMAIN <<>> : FALSE
  BY Tuples DEF Fit, NoRequest
<1>4. current' \in Requests \union {NoRequest} /\ Fit(current', <<>>)
  BY <1>1, <1>3
<1>5. timers' \in [Callbacks -> 0..MaxTimers] /\ timers'["initializeCallback"] = timers["initializeCallback"]
      /\ (timers["pollSIMState"] > 0 => timers'["pollSIMState"] > 0)
  BY <1>1, <1>2
<1> QED
  BY <1>1, <1>2, <1>3, <1>4, <1>5, TakeStep

LEMMA CallbackStep ==
    ASSUME RefInv, NEW c \in Callbacks, Callback(c)
    PROVE  RefInv'
<1> DEFINE ins == CASE c = "initializeCallback" -> initializeCallback
                    [] c = "pollSIMState" -> pollSIMState
                    [] c = "onDataCallListChanged" -> onDataCallListChanged
           list == ListOf("callback", Null)
<1>1. /\ work[E] = <<>> /\ current = NoRequest /\ timers[c] > 0
      /\ timers' = [timers EXCEPT ![c] = @ - 1] /\ work' = [work EXCEPT ![E] = ins]
      /\ current' = current /\ answer' = answer /\ calls' = calls
      /\ UNCHANGED <<sState, s_closed, s_readerClosed, opens, main, reader, overtaken>>
  BY DEF Callback
<1>2. /\ timers \in [Callbacks -> 0..MaxTimers] /\ DOMAIN work = Threads /\ answer' = NoAnswer
      /\ current' = NoRequest /\ MaxTimers \in Nat
  BY <1>1, IdleIs, ThreadSets
<1>3. /\ timers' \in [Callbacks -> 0..MaxTimers]
      /\ \A b \in Callbacks : b # c => timers'[b] = timers[b]
  <2>1. timers[c] \in 0..MaxTimers /\ timers[c] - 1 \in 0..MaxTimers
    BY <1>1, <1>2
  <2> QED
    BY <1>1, <1>2, <2>1
<1>4. work'[E] = ins /\ DOMAIN work' = Threads /\ \A t \in Threads : t # E => work'[t] = work[t]
  BY <1>1, <1>2, ThreadSets
<1>5. NoRequest.request # "RADIO_POWER" /\ ~PowersOff(NoRequest) /\ \A i : Of(NoRequest, i) <=> OfCallback(i)
  BY DEF NoRequest, PowersOff, Of
<1>6. ASSUME NEW i, OfCallback(i), i # Set(OFF), ~Radio(i), ~GetsCalls(i)
      PROVE  Fit(NoRequest, <<i>>)
  <2>1. Stack(<<i>>) /\ DOMAIN <<i>> = {1} /\ <<i>>[1] = i
    BY Tuples
  <2> QED
    BY <1>5, <1>6, <2>1 DEF Fit
<1>7. Fit(NoRequest, <<>>)
  BY Tuples DEF Fit, NoRequest
<1>i. "initializeCallback" \in Callbacks /\ "pollSIMState" \in Callbacks
  BY DEF Callbacks
<1>8. /\ Fit(NoRequest, ins) /\ \A k \in DOMAIN ins : ~GetsCalls(ins[k])
      /\ \/ sState # SIM_NOT_READY
         \/ \E k \in DOMAIN ins : Owes(ins[k])
         \/ /\ timers'["initializeCallback"] = timers["initializeCallback"]
            /\ timers["pollSIMState"] > 0 => timers'["pollSIMState"] > 0
      /\ \/ timers'["initializeCallback"] = timers["initializeCallback"]
         \/ ins # <<>> /\ Head(ins).op = "set"
  <2>1. CASE c = "initializeCallback"
    <3> DEFINE x == Set(OFF)
               y == Settings
               z == Call("isRadioOn")
    <3>1. ins = <<x, y, z>>
      BY <2>1 DEF initializeCallback, Settings
    <3>2. OfCallback(x) /\ OfCallback(y) /\ OfCallback(z)
      BY DEF OfCallback, Polling, Initializing
    <3>3. /\ ~GetsCalls(x) /\ ~GetsCalls(y) /\ ~GetsCalls(z) /\ y # Set(OFF) /\ z # Set(OFF)
          /\ ~Radio(x) /\ Owes(x) /\ x.op = "set"
      BY NotPolling, RadioIs, Ops DEF GetsCalls, Settings, Owes, OFF, SIM_NOT_READY
    <3>4. ~Radio(y)
      BY RadioIs DEF Polling
    <3> HIDE DEF x, y, z, ins
    <3>5. Stack(ins) /\ DOMAIN ins = {1, 2, 3} /\ ins[1] = x /\ ins[2] = y /\ ins[3] = z
      BY <3>1, Tuples
    <3>6. ins # <<>> /\ Head(ins) = x
      BY <3>1
    <3>7. Fit(NoRequest, ins)
      <4>1. \A k \in DOMAIN ins : Of(NoRequest, ins[k]) /\ ~GetsCalls(ins[k]) /\ (ins[k] = Set(OFF) => k = 1)
                                  /\ (Radio(ins[k]) => k = 3)
        BY <1>5, <3>2, <3>3, <3>4, <3>5
      <4>2. \A k, l \in DOMAIN ins : Radio(ins[k]) /\ Radio(ins[l]) => k = l
        BY <4>1
      <4>3. ins[1] = Set(OFF)
        BY <3>5 DEF x
      <4> QED
        BY <1>5, <3>5, <4>1, <4>2, <4>3 DEF Fit
    <3> QED
      BY <3>3, <3>5, <3>6, <3>7
  <2>2. CASE c = "pollSIMState"
    <3>1. timers'["initializeCallback"] = timers["initializeCallback"]
      BY <1>3, <1>i, <2>2
    <3>2. ins = pollSIMState
      BY <2>2
    <3> HIDE DEF ins
    <3>3. CASE sState # SIM_NOT_READY
      <4>1. ins = <<>>
        BY <3>2, <3>3 DEF pollSIMState
      <4> QED
        BY <1>7, <3>1, <3>3, <4>1, Tuples
    <3>4. CASE sState = SIM_NOT_READY
      <4>1. ins = <<PollCommand>>
        BY <3>2, <3>4 DEF pollSIMState, getSIMStatus, PollCommand, SIM_NOT_READY, OFF, UNAVAILABLE
      <4>2. OfCallback(PollCommand) /\ ~GetsCalls(PollCommand) /\ Owes(PollCommand) /\ PollCommand # Set(OFF)
        BY Ops DEF OfCallback, Polling, GetsCalls, Owes, PollCommand
      <4>3. ~Radio(PollCommand)
        BY RadioIs DEF Polling
      <4>4. Fit(NoRequest, ins)
        BY <1>6, <4>1, <4>2, <4>3
      <4>5. DOMAIN ins = {1} /\ ins[1] = PollCommand
        BY <4>1, Tuples
      <4> QED
        BY <3>1, <4>2, <4>4, <4>5
    <3> QED
      BY <3>3, <3>4
  <2>3. CASE c = "onDataCallListChanged"
    <3>1. ins = <<list>>
      BY <2>3 DEF onDataCallListChanged, requestOrSendDataCallList, ListOf
    <3>2. OfCallback(list) /\ list.op = "at" /\ list.fn = "requestOrSendDataCallList"
      BY ListFields DEF OfCallback
    <3>3. list # Set(OFF) /\ ~GetsCalls(list) /\ ~Radio(list)
      BY <3>2, RadioIs, Ops DEF GetsCalls
    <3> HIDE DEF ins, list
    <3>4. Fit(NoRequest, ins)
      BY <1>6, <3>1, <3>2, <3>3
    <3>5. DOMAIN ins = {1} /\ ins[1] = list
      BY <3>1, Tuples
    <3>6. /\ timers'["initializeCallback"] = timers["initializeCallback"]
          /\ timers["pollSIMState"] > 0 => timers'["pollSIMState"] > 0
      BY <1>3, <1>i, <2>3
    <3> QED
      BY <3>3, <3>4, <3>5, <3>6
  <2> QED
    BY <2>1, <2>2, <2>3 DEF Callbacks
<1> HIDE DEF ins
<1>9. current' \in Requests \union {NoRequest} /\ Fit(current', ins)
  BY <1>2, <1>8
<1> QED
  BY <1>1, <1>2, <1>3, <1>4, <1>8, <1>9, TakeStep

-----------------------------------------------------------------------------
(* The steps of the reader threads. *)

LEMMA ReaderKept ==
    ASSUME NEW r \in Sessions, ReaderInv(r), work'[r] = work[r], reader'[r] = reader[r],
           opens' = opens, main' = main, s_closed' = s_closed, overtaken => overtaken',
           sState' = sState \/ (s_closed => sState' = UNAVAILABLE)
    PROVE  ReaderInv(r)'
<1>1. Past(r)' <=> Past(r)
  BY DEF Past, Gone
<1>2. Gone(r)' <=> Gone(r)
  BY DEF Gone
<1>3. Past(r) => s_closed \/ Gone(r)
  BY DEF Past
<1> QED
  BY <1>1, <1>2, <1>3 DEF ReaderInv, On

LEMMA ReaderStep ==
    ASSUME RefInv, NEW r \in Sessions, DOMAIN work' = Threads,
           \A t \in Threads : t # r => work'[t] = work[t],
           s_closed' = s_closed, s_readerClosed' = s_readerClosed, opens' = opens, main' = main,
           reader' = reader, current' = current, answer' = answer, calls' = calls,
           overtaken => overtaken', overtaken' \in BOOLEAN,
           \/ sState' = sState
           \/ /\ sState' \in RadioStates /\ sState' # SIM_NOT_READY
              /\ IF s_closed THEN sState' = UNAVAILABLE ELSE overtaken',
           timers' \in [Callbacks -> 0..MaxTimers],
           timers'["initializeCallback"] = timers["initializeCallback"],
           timers["pollSIMState"] > 0 => timers'["pollSIMState"] > 0,
           sState' = SIM_NOT_READY =>
              \/ timers'["pollSIMState"] > 0
              \/ \E k \in DOMAIN work'[r] : Owes(work'[r][k])
              \/ \A k \in DOMAIN work[r] : ~Owes(work[r][k]),
           ReaderInv(r)', reader[r] = "ended"
    PROVE  RefInv'
<1>0. /\ TypeOK /\ CommandInv /\ AnswerInv /\ RadioInv /\ PollInv /\ OpenInv /\ PowerInv
      /\ CallsInv /\ MainInv
  BY DEF RefInv
<1>1. work'[E] = work[E] /\ r # E /\ E \in Threads /\ r \in Threads
  BY ThreadSets
<1>2. TypeOK'
  BY <1>0 DEF TypeOK
<1>3. CommandInv' /\ AnswerInv'
  BY <1>0, <1>1 DEF CommandInv, AnswerInv, On
<1>4. RadioInv'
  BY <1>0, <1>1 DEF RadioInv, On
<1>5. PollInv'
  <2> SUFFICES ASSUME sState' = SIM_NOT_READY, timers'["initializeCallback"] = 0,
                      ~(timers'["pollSIMState"] > 0)
               PROVE  \E t \in Threads : \E k \in DOMAIN work'[t] : Owes(work'[t][k])
    BY DEF PollInv, On
  <2>1. CASE \E k \in DOMAIN work'[r] : Owes(work'[r][k])
    BY <1>1, <2>1
  <2>2. CASE \A k \in DOMAIN work[r] : ~Owes(work[r][k])
    <3>1. sState = SIM_NOT_READY
      OBVIOUS
    <3>2. PICK t \in Threads : \E k \in DOMAIN work[t] : Owes(work[t][k])
      BY <1>0, <3>1 DEF PollInv, On
    <3>3. t # r
      BY <2>2, <3>2
    <3> QED
      BY <3>2, <3>3
  <2> QED
    BY <2>1, <2>2
<1>6. OpenInv'
  BY <1>0, <1>1 DEF OpenInv, Doing, Next_
<1>7. PowerInv'
  <2>1. sState' # sState => (sState' # SIM_NOT_READY /\ (overtaken' \/ sState' = UNAVAILABLE))
    OBVIOUS
  <2>2. UNAVAILABLE # OFF
    BY DEF UNAVAILABLE, OFF
  <2> QED
    BY <1>0, <1>1, <2>1, <2>2 DEF PowerInv, On
<1>8. CallsInv'
  BY <1>0, <1>1 DEF CallsInv, On
<1>9. MainInv'
  <2>1. \A s \in Sessions : ReaderInv(s)
    BY <1>0 DEF MainInv
  <2>2. ASSUME NEW s \in Sessions, s # r PROVE ReaderInv(s)' /\ work'[s] = work[s]
    <3>1. work'[s] = work[s]
      BY <2>2, ThreadSets
    <3>2. sState' = sState \/ (s_closed => sState' = UNAVAILABLE)
      OBVIOUS
    <3> QED
      BY <2>1, <3>1, <3>2, ReaderKept
  <2>3. \A s \in Sessions : ReaderInv(s)'
    BY <2>2
  <2>4. \A s \in Sessions : reader'[s] # "ended" => work'[s] = <<>>
    BY <1>0, <2>2 DEF MainInv
  <2> QED
    BY <1>0, <2>3, <2>4 DEF MainInv
<1> QED
  BY <1>2, <1>3, <1>4, <1>5, <1>6, <1>7, <1>8, <1>9 DEF RefInv

\* What a reader thread may be at.
Overtaker(r) ==
    /\ overtaken /\ reader[r] = "ended" /\ Gone(r)
    /\ Stack(work[r]) /\ \A k \in DOMAIN work[r] : work[r][k] \in Polling

LEMMA ReaderAt ==
    ASSUME RefInv, NEW r \in Sessions, work[r] # <<>>
    PROVE  /\ reader[r] = "ended"
           /\ \/ Doing(r, "closed") /\ work[r] = <<Closed, Set(UNAVAILABLE)>>
                   /\ r = opens /\ ~s_closed /\ main \in {"initialize", "waitForClose"}
              \/ Doing(r, "set") /\ work[r] = <<Set(UNAVAILABLE)>> /\ Past(r)
              \/ /\ Doing(r, "changed") /\ Past(r) /\ (sState = UNAVAILABLE \/ Gone(r))
                 /\ \E s \in RadioStates, look \in Looks : work[r] = <<Changed(s, look)>>
              \/ /\ Overtaker(r) /\ 1 \in DOMAIN work[r] /\ Next_(r) = work[r][1]
                 /\ Next_(r).op \in {"at", "call", "later", "set", "changed"}
<1>1. ReaderInv(r) /\ reader[r] = "ended"
  BY DEF RefInv, MainInv
<1>2. CASE work[r] = <<Closed, Set(UNAVAILABLE)>>
           /\ r = opens /\ ~s_closed /\ main \in {"initialize", "waitForClose"}
  <2>1. Head(work[r]) = Closed
    BY <1>2
  <2> QED
    BY <1>1, <1>2, <2>1 DEF Doing, Next_, Closed
<1>3. CASE work[r] = <<Set(UNAVAILABLE)>> /\ Past(r)
  <2> DEFINE i == Set(UNAVAILABLE)
  <2>1. i.op = "set"
    BY Ops
  <2> HIDE DEF i
  <2>2. Head(<<i>>) = i
    OBVIOUS
  <2> QED
    BY <1>1, <1>3, <2>1, <2>2 DEF Doing, Next_, i
<1>4. ASSUME NEW s \in RadioStates, NEW look \in Looks, work[r] = <<Changed(s, look)>>,
             Past(r), sState = UNAVAILABLE \/ Gone(r)
      PROVE  /\ Doing(r, "changed") /\ Past(r) /\ (sState = UNAVAILABLE \/ Gone(r))
             /\ \E v \in RadioStates, l \in Looks : work[r] = <<Changed(v, l)>>
  <2> DEFINE i == Changed(s, look)
  <2>1. i.op = "changed"
    BY Ops
  <2> HIDE DEF i
  <2>2. Head(<<i>>) = i
    OBVIOUS
  <2> QED
    BY <1>4, <2>1, <2>2 DEF Doing, Next_, i
<1>5. CASE Overtaker(r)
  <2>1. 1 \in DOMAIN work[r] /\ Next_(r) = work[r][1]
    BY <1>5, EmptySeq DEF Overtaker, Stack, Next_
  <2>2. Next_(r) \in Polling
    BY <1>5, <2>1 DEF Overtaker
  <2>3. Next_(r).op \in {"at", "call", "later", "set", "changed"}
    BY <2>2, Ops DEF Polling, Settings, PollCommand
  <2> QED
    BY <1>1, <1>5, <2>1, <2>3
<1> QED
  BY <1>1, <1>2, <1>3, <1>4, <1>5 DEF ReaderInv, Overtaker, On

LEMMA OvertakerMoves ==
    ASSUME RefInv, NEW r \in Sessions, Overtaker(r), work[r] # <<>>, NEW ins, Stack(ins), Then(r, ins),
           \A k \in DOMAIN ins : ins[k] \in Polling,
           overtaken', reader' = reader, opens' = opens, main' = main
    PROVE  /\ Over(work'[r], ins, work[r]) /\ DOMAIN work' = Threads
           /\ \A t \in Threads : t # r => work'[t] = work[t]
           /\ ReaderInv(r)'
<1>1. TypeOK /\ r \in Threads
  BY ThreadSets DEF RefInv
<1>2. /\ Over(work'[r], ins, work[r]) /\ DOMAIN work' = Threads
      /\ \A t \in Threads : t # r => work'[t] = work[t]
  BY <1>1, Moves DEF Overtaker
<1>3. Stack(work'[r]) /\ \A k \in DOMAIN work'[r] : work'[r][k] \in Polling
  BY <1>2 DEF Over, Overtaker
<1>4. reader'[r] = "ended" /\ Gone(r)'
  BY DEF Overtaker, Gone
<1> QED
  BY <1>2, <1>3, <1>4 DEF ReaderInv, On

\* Who owes the poll on a stack of which only the top is replaced.
LEMMA OwedOver ==
    ASSUME NEW v, NEW ins, NEW w, Over(v, ins, w),
           Owes(w[1]) => \E k \in DOMAIN ins : Owes(ins[k])
    PROVE  (\E k \in DOMAIN v : Owes(v[k])) \/ \A k \in DOMAIN w : ~Owes(w[k])
<1>1. CASE \E k \in DOMAIN ins : Owes(ins[k])
  BY <1>1 DEF Over
<1>2. CASE ~Owes(w[1])
  <2>1. ASSUME NEW k \in DOMAIN w, Owes(w[k]) PROVE \E j \in DOMAIN v : Owes(v[j])
    <3>1. k # 1
      BY <1>2, <2>1
    <3>2. k + Len(ins) - 1 \in DOMAIN v /\ v[k + Len(ins) - 1] = w[k]
      BY <3>1 DEF Over
    <3> QED
      BY <2>1, <3>2
  <2> QED
    BY <2>1
<1> QED
  BY <1>1, <1>2

LEMMA SameTimers ==
    ASSUME RefInv, timers' = timers
    PROVE  /\ timers' \in [Callbacks -> 0..MaxTimers] /\ timers'["initializeCallback"] = timers["initializeCallback"]
           /\ timers["pollSIMState"] > 0 => timers'["pollSIMState"] > 0
  BY DEF RefInv, TypeOK

\* A step of a reader that has been overtaken, which polls the SIM.
LEMMA OvertakerStep ==
    ASSUME RefInv, NEW r \in Sessions, Overtaker(r), work[r] # <<>>, NEW ins, Stack(ins), Then(r, ins),
           \A k \in DOMAIN ins : ins[k] \in Polling,
           (sState = SIM_NOT_READY /\ Owes(work[r][1])) => \E k \in DOMAIN ins : Owes(ins[k]),
           UNCHANGED <<sState, s_closed, s_readerClosed, opens, main, reader, timers, current,
                       answer, calls>>, overtaken'
    PROVE  RefInv'
<1>1. /\ Over(work'[r], ins, work[r]) /\ DOMAIN work' = Threads
      /\ \A t \in Threads : t # r => work'[t] = work[t]
      /\ ReaderInv(r)'
  <2>1. overtaken' /\ reader' = reader /\ opens' = opens /\ main' = main
    OBVIOUS
  <2> QED
    BY <2>1, OvertakerMoves
<1>2. sState' = SIM_NOT_READY =>
         (\E k \in DOMAIN work'[r] : Owes(work'[r][k])) \/ \A k \in DOMAIN work[r] : ~Owes(work[r][k])
  BY <1>1, OwedOver
<1>3. timers' = timers /\ reader[r] = "ended"
  BY DEF Overtaker
<1>4. /\ timers' \in [Callbacks -> 0..MaxTimers] /\ timers'["initializeCallback"] = timers["initializeCallback"]
      /\ timers["pollSIMState"] > 0 => timers'["pollSIMState"] > 0
  BY <1>3, SameTimers
<1>5. /\ s_closed' = s_closed /\ s_readerClosed' = s_readerClosed /\ opens' = opens /\ main' = main
      /\ reader' = reader /\ current' = current /\ answer' = answer /\ calls' = calls /\ sState' = sState
      /\ (overtaken => overtaken')
  OBVIOUS
<1>6. overtaken' \in BOOLEAN
  OBVIOUS
<1> QED
  BY <1>1, <1>2, <1>3, <1>4, <1>5, <1>6, ReaderStep

LEMMA ReaderAtStep ==
    ASSUME RefInv, NEW r \in Sessions, AtCommand(r)
    PROVE  RefInv'
<1> DEFINE i == work[r][1]
<1>1. work[r] # <<>> /\ Overtaker(r) /\ Next_(r) = i /\ 1 \in DOMAIN work[r] /\ i.op = "at"
  BY ReaderAt DEF AtCommand, Doing
<1> HIDE DEF i
<1>2. i \in {Settings, PollCommand} /\ i.fn \in {"Settings", "getSIMStatus"}
  <2>1. i \in Polling
    BY <1>1 DEF Overtaker, i
  <2>2. i \in {Settings, PollCommand}
    BY <1>1, <2>1, Ops DEF Polling
  <2> QED
    BY <2>2, Ops DEF Settings, PollCommand
<1>3. PICK o \in Outcomes(r, i.fn, i.memo) :
            /\ Then(r, AfterAt(i.fn, i.memo, o))
            /\ calls' = CASE i.fn = "requestGetCurrentCalls" -> CallsAfterPoll(i.memo, o)
                          [] i.fn = "Ignored" /\ current.request \in AnsweringRequests ->
                                [calls EXCEPT !.expect = USE_TI_COMMANDS]
                          [] OTHER -> calls
  BY <1>1 DEF AtCommand
<1>4. calls' = calls
  BY <1>2, <1>3
<1>5. UNCHANGED <<sState, s_closed, s_readerClosed, opens, main, reader, timers, current,
                   answer, calls>> /\ overtaken'
  BY <1>1, <1>4 DEF AtCommand, Overtaker
<1>6. CASE i = Settings
  <2>1. Then(r, <<>>) /\ ~Owes(i)
    <3>1. AfterAt(i.fn, i.memo, o) = <<>>
      BY <1>6, SettingsAfter
    <3> QED
      BY <1>3, <1>6, <3>1, Ops DEF Owes, Settings, PollCommand
  <2> QED
    BY <1>1, <1>5, <2>1, Tuples, OvertakerStep DEF i
<1>7. CASE i = PollCommand
  <2>1. PICK d \in {Later("pollSIMState"), Set(SIM_READY), Set(SIM_LOCKED_OR_ABSENT)} :
              AfterAt(i.fn, i.memo, o) = <<d>>
    BY <1>7, PollAfter
  <2>2. d \in Polling /\ Owes(d)
    BY PollResults
  <2>3. Stack(<<d>>) /\ DOMAIN <<d>> = {1} /\ <<d>>[1] = d /\ Then(r, <<d>>)
    BY <1>3, <2>1, Tuples
  <2> QED
    BY <1>1, <1>5, <2>2, <2>3, OvertakerStep
<1> QED
  BY <1>2, <1>6, <1>7

LEMMA ReaderCallStep ==
    ASSUME RefInv, NEW r \in Sessions, EventOrCall(r)
    PROVE  RefInv'
<1> DEFINE i == work[r][1]
<1>1. work[r] # <<>> /\ Overtaker(r) /\ Next_(r) = i /\ 1 \in DOMAIN work[r] /\ i.op = "call"
  BY ReaderAt DEF EventOrCall, Doing
<1>2. Then(r, IF i.fn = "isRadioOn" THEN isRadioOn("initializeCallback", Start) ELSE pollSIMState)
  BY <1>1 DEF EventOrCall, Doing
<1>3. UNCHANGED <<sState, s_closed, s_readerClosed, opens, main, reader, timers, current,
                   answer, calls>> /\ overtaken'
  BY <1>1 DEF EventOrCall, Overtaker
<1>4. i = Call("pollSIMState")
  <2>1. i \in Polling
    BY <1>1 DEF Overtaker
  <2> HIDE DEF i
  <2> QED
    BY <1>1, <2>1, Ops DEF Polling, Settings, PollCommand
<1> HIDE DEF i
<1>5. Then(r, pollSIMState)
  BY <1>2, <1>4, Ops
<1>6. CASE sState = SIM_NOT_READY
  <2>1. Then(r, <<PollCommand>>)
    BY <1>5, <1>6 DEF pollSIMState, getSIMStatus, PollCommand, SIM_NOT_READY, OFF, UNAVAILABLE
  <2>2. Stack(<<PollCommand>>) /\ DOMAIN <<PollCommand>> = {1} /\ <<PollCommand>>[1] = PollCommand
    BY Tuples
  <2>3. PollCommand \in Polling /\ Owes(PollCommand)
    BY DEF Polling, Owes
  <2> QED
    BY <1>1, <1>3, <2>1, <2>2, <2>3, OvertakerStep
<1>7. CASE sState # SIM_NOT_READY
  <2>1. Then(r, <<>>)
    BY <1>5, <1>7 DEF pollSIMState
  <2> QED
    BY <1>1, <1>3, <1>7, <2>1, Tuples, OvertakerStep
<1> QED
  BY <1>6, <1>7

LEMMA ReaderLaterStep ==
    ASSUME RefInv, NEW r \in Sessions, RIL_requestTimedCallback(r)
    PROVE  RefInv'
<1> DEFINE i == work[r][1]
<1>1. work[r] # <<>> /\ Overtaker(r) /\ Next_(r) = i /\ 1 \in DOMAIN work[r] /\ i.op = "later"
      /\ Then(r, <<>>)
  BY ReaderAt DEF RIL_requestTimedCallback, Doing
<1>2. i = Later("pollSIMState")
  <2>1. i \in Polling
    BY <1>1 DEF Overtaker
  <2> HIDE DEF i
  <2> QED
    BY <1>1, <2>1, Ops DEF Polling, Settings, PollCommand
<1> HIDE DEF i
<1>i. "initializeCallback" \in Callbacks /\ "pollSIMState" \in Callbacks
  BY DEF Callbacks
<1>3. timers' = Scheduled("pollSIMState") /\ TypeOK
  BY <1>1, <1>2, <1>i, Ops DEF RIL_requestTimedCallback, RefInv
<1>4. /\ timers' \in [Callbacks -> 0..MaxTimers] /\ timers'["initializeCallback"] = timers["initializeCallback"]
      /\ timers'["pollSIMState"] > 0
  BY <1>3, <1>i, TimersAfter
<1>5. /\ s_closed' = s_closed /\ s_readerClosed' = s_readerClosed /\ opens' = opens /\ main' = main
      /\ reader' = reader /\ current' = current /\ answer' = answer /\ calls' = calls /\ sState' = sState
      /\ overtaken' = overtaken
  BY DEF RIL_requestTimedCallback
<1>6. overtaken' \in BOOLEAN /\ overtaken' /\ reader[r] = "ended"
  BY <1>1, <1>5 DEF Overtaker, RefInv, TypeOK
<1>7. /\ DOMAIN work' = Threads /\ \A t \in Threads : t # r => work'[t] = work[t]
      /\ ReaderInv(r)'
  <2>1. Stack(<<>>) /\ \A k \in DOMAIN <<>> : <<>>[k] \in Polling
    BY Tuples
  <2> QED
    BY <1>1, <1>5, <1>6, <2>1, OvertakerMoves
<1> QED
  BY <1>4, <1>5, <1>6, <1>7, ReaderStep

LEMMA PushedOnOne ==
    ASSUME NEW a, NEW ins, Stack(ins)
    PROVE  ins \o Tail(<<a>>) = ins
<1>1. Tail(<<a>>) = <<>>
  OBVIOUS
<1> QED
  BY <1>1, ConcatEmptySeq DEF Stack

LEMMA ReaderSetStep ==
    ASSUME RefInv, NEW r \in Sessions, setRadioState(r)
    PROVE  RefInv'
<1> DEFINE i == Next_(r)
           d == Changed(sState, "differs")
<1>1. /\ work[r] # <<>> /\ i.op = "set" /\ Then(r, <<d>>) /\ sState' = NewState(i.state)
      /\ reader[r] = "ended" /\ (Overtaker(r) \/ (work[r] = <<Set(UNAVAILABLE)>> /\ Past(r)))
      /\ (Overtaker(r) => i = work[r][1] /\ 1 \in DOMAIN work[r])
  <2>1. work[r] # <<>> /\ i.op = "set" /\ Then(r, <<d>>) /\ sState' = NewState(i.state)
    BY DEF setRadioState, Doing
  <2>2. ~Doing(r, "closed") /\ ~Doing(r, "changed")
    BY <2>1 DEF Doing
  <2>3. /\ reader[r] = "ended" /\ (Overtaker(r) \/ (work[r] = <<Set(UNAVAILABLE)>> /\ Past(r)))
    BY <2>1, <2>2, ReaderAt
  <2>4. Overtaker(r) => i = work[r][1] /\ 1 \in DOMAIN work[r]
    BY <2>1, EmptySeq DEF Overtaker, Stack, Next_
  <2> QED
    BY <2>1, <2>3, <2>4
<1>2. /\ s_closed' = s_closed /\ s_readerClosed' = s_readerClosed /\ opens' = opens /\ main' = main
      /\ reader' = reader /\ current' = current /\ answer' = answer /\ calls' = calls /\ timers' = timers
      /\ overtaken' = (overtaken \/ ~s_closed)
  BY ThreadSets DEF setRadioState
<1>3. s_closed \in BOOLEAN /\ overtaken \in BOOLEAN /\ DOMAIN work = Threads /\ sState \in RadioStates
  BY DEF RefInv, TypeOK
<1>4. d \in Polling
  BY <1>3 DEF Polling, Looks
<1>5. i.state \in {UNAVAILABLE, SIM_READY, SIM_LOCKED_OR_ABSENT} /\ (~Overtaker(r) => i.state = UNAVAILABLE)
  <2>1. CASE Overtaker(r)
    <3>1. i \in Polling
      BY <1>1, <2>1 DEF Overtaker
    <3> HIDE DEF i
    <3>2. i \in {Set(SIM_READY), Set(SIM_LOCKED_OR_ABSENT)}
      BY <1>1, <3>1, Ops DEF Polling, Settings, PollCommand
    <3> QED
      BY <2>1, <3>2, Ops
  <2>2. CASE work[r] = <<Set(UNAVAILABLE)>>
    <3> DEFINE u == Set(UNAVAILABLE)
    <3>1. u.state = UNAVAILABLE
      BY Ops
    <3> HIDE DEF u
    <3>2. Head(<<u>>) = u
      OBVIOUS
    <3> QED
      BY <2>2, <3>1, <3>2 DEF u, Next_
  <2> QED
    BY <1>1, <2>1, <2>2
<1> HIDE DEF i, d
<1>6. /\ sState' \in RadioStates /\ sState' # SIM_NOT_READY
      /\ IF s_closed THEN sState' = UNAVAILABLE ELSE overtaken'
      /\ (~Overtaker(r) => sState' = UNAVAILABLE)
  BY <1>1, <1>2, <1>3, <1>5 DEF NewState, RadioStates, UNAVAILABLE, SIM_NOT_READY, SIM_READY, SIM_LOCKED_OR_ABSENT
<1>7. Stack(<<d>>) /\ DOMAIN <<d>> = {1} /\ <<d>>[1] = d
  BY Tuples
<1>8. /\ DOMAIN work' = Threads /\ \A t \in Threads : t # r => work'[t] = work[t]
      /\ ReaderInv(r)'
  <2>1. CASE Overtaker(r)
    <3>1. overtaken'
      BY <1>2, <2>1 DEF Overtaker
    <3> QED
      BY <1>1, <1>2, <1>4, <1>7, <2>1, <3>1, OvertakerMoves
  <2>2. CASE ~Overtaker(r)
    <3>1. DOMAIN work' = Threads /\ \A t \in Threads : t # r => work'[t] = work[t]
      BY <1>1, <1>3 DEF Then
    <3>2. work'[r] = <<d>> /\ Past(r)
      <4> DEFINE u == Set(UNAVAILABLE)
      <4>1. work[r] = <<u>> /\ Past(r) /\ r \in Threads
        BY <1>1, <2>2, ThreadSets
      <4> HIDE DEF u
      <4>2. <<d>> \o Tail(<<u>>) = <<d>>
        BY <1>7, PushedOnOne
      <4> QED
        BY <1>1, <1>3, <4>1, <4>2 DEF Then
    <3>3. Past(r)' /\ sState' = UNAVAILABLE
      BY <1>2, <1>6, <2>2, <3>2 DEF Past, Gone
    <3>4. \E s \in RadioStates, look \in Looks : work'[r] = <<Changed(s, look)>>
      BY <1>3, <3>2 DEF d, Looks
    <3> QED
      BY <3>1, <3>3, <3>4 DEF ReaderInv
  <2> QED
    BY <2>1, <2>2
<1>9. /\ timers' \in [Callbacks -> 0..MaxTimers] /\ timers'["initializeCallback"] = timers["initializeCallback"]
      /\ timers["pollSIMState"] > 0 => timers'["pollSIMState"] > 0
  BY <1>2, SameTimers
<1>10. overtaken' \in BOOLEAN /\ (overtaken => overtaken')
  BY <1>2, <1>3
<1> QED
  BY <1>1, <1>2, <1>6, <1>8, <1>9, <1>10, ReaderStep

LEMMA ReaderChangedStep ==
    ASSUME RefInv, NEW r \in Sessions, radioStateChanged(r)
    PROVE  RefInv'
<1> DEFINE i == Next_(r)
           ins == Rest(i)
<1>1. /\ work[r] # <<>> /\ i.op = "changed" /\ Then(r, ins) /\ reader[r] = "ended"
      /\ \/ Overtaker(r) /\ i = work[r][1] /\ 1 \in DOMAIN work[r]
         \/ /\ Past(r) /\ (sState = UNAVAILABLE \/ Gone(r))
            /\ \E s \in RadioStates, look \in Looks : work[r] = <<Changed(s, look)>>
  BY ReaderAt DEF radioStateChanged, Doing, Rest
<1>2. /\ s_closed' = s_closed /\ s_readerClosed' = s_readerClosed /\ opens' = opens /\ main' = main
      /\ reader' = reader /\ current' = current /\ answer' = answer /\ calls' = calls /\ timers' = timers
      /\ overtaken' = (overtaken \/ sState # UNAVAILABLE) /\ sState' = sState
  BY ThreadSets DEF radioStateChanged
<1>3. overtaken \in BOOLEAN /\ DOMAIN work = Threads /\ sState \in RadioStates
  BY DEF RefInv, TypeOK
<1>4. CASE Overtaker(r) /\ i = work[r][1] /\ 1 \in DOMAIN work[r]
  <2>1. \E s \in RadioStates, look \in Looks : i = Changed(s, look)
    <3>1. i \in Polling
      BY <1>4 DEF Overtaker
    <3> HIDE DEF i
    <3> QED
      BY <1>1, <3>1, Ops DEF Polling, Settings, PollCommand
  <2> HIDE DEF ins
  <2>2. /\ Stack(ins) /\ \A k \in DOMAIN ins : ins[k] \in Polling
        /\ sState = SIM_NOT_READY /\ Owes(i) => \E k \in DOMAIN ins : Owes(ins[k])
    <3> HIDE DEF i
    <3> QED
      BY <2>1, AfterChanged DEF ins
  <2>3. overtaken' /\ UNCHANGED <<sState, s_closed, s_readerClosed, opens, main, reader, timers, current,
                       answer, calls>>
    BY <1>2, <1>4 DEF Overtaker
  <2> QED
    BY <1>1, <1>4, <2>2, <2>3, OvertakerStep
<1>5. ASSUME NEW s \in RadioStates, NEW look \in Looks, work[r] = <<Changed(s, look)>>,
             Past(r), sState = UNAVAILABLE \/ Gone(r)
      PROVE  RefInv'
  <2> DEFINE c == Changed(s, look)
  <2> HIDE DEF c
  <2>1. work[r] = <<c>> /\ Head(<<c>>) = c /\ <<c>>[1] = c /\ DOMAIN <<c>> = {1}
    BY <1>5 DEF c
  <2>2. i = c
    BY <2>1 DEF Next_
  <2> HIDE DEF i, ins
  <2>3. /\ Stack(ins) /\ \A k \in DOMAIN ins : ins[k] \in Polling
        /\ sState = SIM_NOT_READY /\ Owes(i) => \E k \in DOMAIN ins : Owes(ins[k])
    BY <2>2, AfterChanged DEF ins, c
  <2>4. work'[r] = ins /\ DOMAIN work' = Threads /\ \A t \in Threads : t # r => work'[t] = work[t]
    <3>1. ins \o Tail(<<c>>) = ins
      BY <2>3, PushedOnOne
    <3>2. r \in Threads
      BY ThreadSets
    <3> QED
      BY <1>1, <1>3, <2>1, <3>1, <3>2 DEF Then
  <2>5. Past(r)' /\ (Gone(r)' <=> Gone(r))
    BY <1>2, <1>5 DEF Past, Gone
  <2>6. ReaderInv(r)'
    <3>1. CASE sState # UNAVAILABLE
      <4>1. overtaken' /\ reader'[r] = "ended" /\ Gone(r)'
        BY <1>1, <1>2, <1>5, <2>5, <3>1
      <4> QED
        BY <2>3, <2>4, <4>1 DEF ReaderInv, On
    <3>2. CASE sState = UNAVAILABLE
      <4>1. ins \in {<<>>, <<Changed(s, "ready")>>, <<Changed(s, "notReady")>>}
        <5>1. sState # SIM_READY /\ sState # SIM_NOT_READY
          BY <3>2 DEF UNAVAILABLE, SIM_READY, SIM_NOT_READY
        <5>2. i.look = look /\ i.old = s
          BY <2>2, Ops DEF c
        <5> QED
          BY <5>1, <5>2 DEF ins, Rest, Looks
      <4>2. ins = <<>> \/ \E v \in RadioStates, l \in Looks : ins = <<Changed(v, l)>>
        BY <4>1 DEF Looks
      <4>3. sState' = UNAVAILABLE
        BY <1>2, <3>2
      <4> QED
        BY <2>4, <2>5, <4>2, <4>3 DEF ReaderInv
    <3> QED
      BY <3>1, <3>2
  <2>7. sState' = SIM_NOT_READY =>
           (\E k \in DOMAIN work'[r] : Owes(work'[r][k])) \/ \A k \in DOMAIN work[r] : ~Owes(work[r][k])
    <3>1. CASE Owes(c)
      BY <1>2, <2>2, <2>3, <2>4, <3>1
    <3>2. CASE ~Owes(c)
      BY <2>1, <3>2
    <3> QED
      BY <3>1, <3>2
  <2>8. /\ timers' \in [Callbacks -> 0..MaxTimers] /\ timers'["initializeCallback"] = timers["initializeCallback"]
        /\ timers["pollSIMState"] > 0 => timers'["pollSIMState"] > 0
    BY <1>2, SameTimers
  <2>9. overtaken' \in BOOLEAN /\ (overtaken => overtaken')
    BY <1>2, <1>3
  <2> QED
    BY <1>1, <1>2, <2>4, <2>6, <2>7, <2>8, <2>9, ReaderStep
<1> QED
  BY <1>1, <1>4, <1>5

LEMMA NotComplete ==
    ASSUME RefInv, NEW r \in Sessions
    PROVE  ~Doing(r, "complete") /\ ~Doing(r, "event")
<1>1. ASSUME work[r] # <<>> PROVE Next_(r).op \notin {"complete", "event"}
  BY <1>1, ReaderAt DEF Doing
<1> QED
  BY <1>1 DEF Doing

-----------------------------------------------------------------------------
(* The channel: its reader ends, and the main loop opens it again. *)

LEMMA ReaderStays ==
    ASSUME NEW s \in Sessions, ReaderInv(s), work'[s] = work[s], reader'[s] = reader[s],
           sState' = sState, overtaken' = overtaken,
           reader[s] = "ended" /\ Gone(s) => Gone(s)',
           reader[s] = "ended" /\ s_closed => s_closed' \/ Gone(s)',
           (reader[s] = "ended" /\ s = opens /\ ~s_closed /\ main \in {"initialize", "waitForClose"}) =>
              (s = opens' /\ ~s_closed' /\ main' \in {"initialize", "waitForClose"})
    PROVE  ReaderInv(s)'
<1>1. Past(s) => Past(s)'
  BY DEF Past
<1>2. Past(s) => reader[s] = "ended"
  BY DEF Past
<1> QED
  BY <1>1, <1>2 DEF ReaderInv, On

LEMMA PollStays ==
    ASSUME RefInv, sState' = sState, DOMAIN work' = Threads,
           \/ timers'["initializeCallback"] > 0
           \/ /\ timers'["initializeCallback"] = timers["initializeCallback"]
              /\ timers["pollSIMState"] > 0 => timers'["pollSIMState"] > 0,
           \A t \in Threads : \A k \in DOMAIN work[t] :
              Owes(work[t][k]) => \E l \in DOMAIN work'[t] : Owes(work'[t][l])
    PROVE  PollInv'
<1> SUFFICES ASSUME sState' = SIM_NOT_READY, timers'["initializeCallback"] = 0,
                    ~(timers'["pollSIMState"] > 0)
             PROVE  \E t \in Threads : \E k \in DOMAIN work'[t] : Owes(work'[t][k])
  BY DEF PollInv, On
<1>1. PollInv /\ timers["initializeCallback"] = 0 /\ ~(timers["pollSIMState"] > 0) /\ sState = SIM_NOT_READY
  BY DEF RefInv
<1>2. PICK t \in Threads : \E k \in DOMAIN work[t] : Owes(work[t][k])
  BY <1>1 DEF PollInv, On
<1> QED
  BY <1>2

LEMMA ChannelStep ==
    ASSUME RefInv, work'[E] = work[E],
           sState' = sState, current' = current, answer' = answer, calls' = calls, overtaken' = overtaken,
           TypeOK', PollInv', OpenInv', MainInv'
    PROVE  RefInv'
<1>0. /\ CommandInv /\ AnswerInv /\ RadioInv /\ PowerInv /\ CallsInv
  BY DEF RefInv
<1>1. CommandInv' /\ AnswerInv'
  BY <1>0 DEF CommandInv, AnswerInv, On
<1>2. RadioInv' /\ CallsInv'
  BY <1>0 DEF RadioInv, CallsInv, On
<1>3. PowerInv'
  BY <1>0 DEF PowerInv, On
<1> QED
  BY <1>1, <1>2, <1>3 DEF RefInv

LEMMA UnsolicitedStep ==
    ASSUME RefInv, NEW r \in Sessions, onUnsolicited(r)
    PROVE  RefInv'
<1>1. /\ timers' = Scheduled("onDataCallListChanged")
      /\ UNCHANGED <<sState, s_closed, s_readerClosed, opens, main, reader, work, current, answer, calls,
                     overtaken>>
  BY DEF onUnsolicited
<1>i. {"initializeCallback", "pollSIMState", "onDataCallListChanged"} \subseteq Callbacks
  BY DEF Callbacks
<1>2. /\ TypeOK /\ OpenInv /\ MainInv
  BY DEF RefInv
<1>3. /\ timers' \in [Callbacks -> 0..MaxTimers]
      /\ timers'["initializeCallback"] = timers["initializeCallback"]
      /\ timers'["pollSIMState"] = timers["pollSIMState"]
  BY <1>1, <1>2, <1>i, TimersAfter
<1>4. TypeOK'
  BY <1>1, <1>2, <1>3 DEF TypeOK
<1>5. PollInv'
  <2>1. DOMAIN work' = Threads /\ sState' = sState
    BY <1>1, <1>2 DEF TypeOK
  <2>2. \A t \in Threads : \A k \in DOMAIN work[t] :
            Owes(work[t][k]) => \E l \in DOMAIN work'[t] : Owes(work'[t][l])
    BY <1>1
  <2> QED
    BY <1>3, <2>1, <2>2, PollStays
<1>6. OpenInv'
  BY <1>1, <1>2, <1>3 DEF OpenInv, Doing, Next_
<1>7. MainInv'
  BY <1>1, <1>2 DEF MainInv, ReaderInv, Past, Gone, On
<1> QED
  BY <1>1, <1>4, <1>5, <1>6, <1>7, ChannelStep

LEMMA ReaderEndsStep ==
    ASSUME RefInv, NEW r \in Sessions, ReaderEnds(r)
    PROVE  RefInv'
<1> DEFINE x == Closed
           y == Set(UNAVAILABLE)
<1>1. /\ reader[r] = "reading" /\ reader' = [reader EXCEPT ![r] = "ended"] /\ s_readerClosed' = TRUE
      /\ work' = [work EXCEPT ![r] = <<x, y>>]
      /\ UNCHANGED <<sState, s_closed, opens, main, timers, current, answer, calls, overtaken>>
  BY DEF ReaderEnds
<1>2. /\ TypeOK /\ OpenInv /\ MainInv /\ r \in Threads /\ r # E /\ E \in Threads
  BY ThreadSets DEF RefInv
<1>3. /\ r = opens /\ ~s_closed /\ main \in {"initialize", "waitForClose"} /\ work[r] = <<>>
      /\ opens \in Nat /\ opens > 0
  BY <1>1, <1>2, ThreadSets DEF MainInv
<1>4. /\ DOMAIN work' = Threads /\ work'[r] = <<Closed, Set(UNAVAILABLE)>> /\ work'[E] = work[E]
      /\ \A t \in Threads : t # r => work'[t] = work[t]
  BY <1>1, <1>2 DEF TypeOK
<1>5. reader' \in [Sessions -> {"none", "reading", "ended"}] /\ reader'[r] = "ended"
      /\ \A s \in Sessions : s # r => reader'[s] = reader[s]
  BY <1>1, <1>2 DEF TypeOK
<1> HIDE DEF x, y
<1>6. TypeOK'
  BY <1>1, <1>2, <1>4, <1>5 DEF TypeOK
<1>7. PollInv'
  <2>1. \A t \in Threads : \A k \in DOMAIN work[t] :
            Owes(work[t][k]) => \E l \in DOMAIN work'[t] : Owes(work'[t][l])
    BY <1>3, <1>4, Tuples
  <2> QED
    BY <1>1, <1>4, <2>1, PollStays
<1>8. OpenInv'
  BY <1>1, <1>2, <1>4 DEF OpenInv, Doing, Next_
<1>9. MainInv'
  <2>1. ASSUME NEW s \in Sessions, s # r PROVE ReaderInv(s)'
    <3>1. ReaderInv(s) /\ work'[s] = work[s] /\ reader'[s] = reader[s]
      BY <1>2, <1>4, <1>5, <2>1, ThreadSets DEF MainInv
    <3> QED
      BY <1>1, <3>1, ReaderKept
  <2>2. ReaderInv(r)'
    BY <1>1, <1>3, <1>4, <1>5 DEF ReaderInv
  <2>3. \A s \in Sessions : ReaderInv(s)'
    BY <2>1, <2>2
  <2>4. \A s \in Sessions : reader'[s] = "none" <=> s > opens'
    BY <1>1, <1>2, <1>3, <1>5 DEF MainInv
  <2>5. \A s \in Sessions : reader'[s] # "ended" => work'[s] = <<>>
    BY <1>2, <1>4, <1>5, ThreadSets DEF MainInv
  <2>6. \A s \in Sessions : reader'[s] # "reading"
    BY <1>2, <1>3, <1>5 DEF MainInv
  <2> QED
    BY <1>1, <1>2, <1>3, <2>3, <2>4, <2>5, <2>6 DEF MainInv
<1> QED
  BY <1>1, <1>4, <1>6, <1>7, <1>8, <1>9, ChannelStep

LEMMA ReaderClosedStep ==
    ASSUME RefInv, NEW r \in Sessions, onATReaderClosed(r)
    PROVE  RefInv'
<1> DEFINE x == Closed
           y == Set(UNAVAILABLE)
<1>1. /\ work[r] # <<>> /\ Next_(r).op = "closed" /\ s_closed' = TRUE /\ Then(r, <<>>)
      /\ UNCHANGED <<sState, s_readerClosed, opens, main, reader, timers, current, answer, calls, overtaken>>
  BY DEF onATReaderClosed, Doing
<1>2. ~Doing(r, "set") /\ ~Doing(r, "changed") /\ Next_(r).op \notin {"at", "call", "later", "set", "changed"}
  BY <1>1 DEF Doing
<1>3. /\ work[r] = <<x, y>> /\ r = opens /\ ~s_closed /\ main \in {"initialize", "waitForClose"}
      /\ reader[r] = "ended"
  BY <1>1, <1>2, ReaderAt
<1>4. /\ TypeOK /\ OpenInv /\ MainInv /\ r \in Threads /\ r # E /\ E \in Threads
      /\ r \in Nat \ {0}
  BY ThreadSets DEF RefInv
<1>o. Owes(y) /\ y = Set(UNAVAILABLE)
  BY Ops DEF Owes, UNAVAILABLE, SIM_NOT_READY
<1> HIDE DEF x, y
<1>5. /\ DOMAIN work' = Threads /\ work'[E] = work[E] /\ work'[r] = <<y>>
      /\ \A t \in Threads : t # r => work'[t] = work[t]
  <2>1. <<>> \o Tail(<<x, y>>) = <<y>>
    OBVIOUS
  <2> QED
    BY <1>1, <1>3, <1>4, <2>1 DEF Then, TypeOK
<1>6. TypeOK'
  BY <1>1, <1>4, <1>5 DEF TypeOK
<1>7. PollInv'
  <2>1. 1 \in DOMAIN <<y>> /\ <<y>>[1] = y
    OBVIOUS
  <2>2. \A t \in Threads : \A k \in DOMAIN work[t] :
            Owes(work[t][k]) => \E l \in DOMAIN work'[t] : Owes(work'[t][l])
    BY <1>o, <1>5, <2>1
  <2> QED
    BY <1>1, <1>5, <2>2, PollStays
<1>8. OpenInv'
  BY <1>1 DEF OpenInv
<1>9. MainInv'
  <2>1. ASSUME NEW s \in Sessions, s # r PROVE ReaderInv(s)'
    <3>1. ReaderInv(s) /\ work'[s] = work[s] /\ reader'[s] = reader[s]
      BY <1>1, <1>4, <1>5, <2>1, ThreadSets DEF MainInv
    <3>2. Gone(s)' <=> Gone(s)
      BY <1>1 DEF Gone
    <3> QED
      BY <1>1, <1>3, <2>1, <3>1, <3>2, ReaderStays
  <2>2. ReaderInv(r)'
    BY <1>o, <1>1, <1>3, <1>5 DEF ReaderInv, Past
  <2>3. \A s \in Sessions : ReaderInv(s)'
    BY <2>1, <2>2
  <2>4. \A s \in Sessions : reader'[s] # "ended" => work'[s] = <<>>
    BY <1>1, <1>3, <1>4, <1>5, ThreadSets DEF MainInv
  <2>5. \A s \in Sessions : reader'[s] # "reading"
    BY <1>1, <1>3, <1>4 DEF MainInv
  <2>6. main' # "at_open" /\ opens' > 0 /\ reader'[opens'] = "ended"
    BY <1>1, <1>3, <1>4
  <2> QED
    BY <1>1, <1>4, <2>3, <2>4, <2>5, <2>6 DEF MainInv
<1> QED
  BY <1>1, <1>5, <1>6, <1>7, <1>8, <1>9, ChannelStep

LEMMA MainLoopStep ==
    ASSUME RefInv, MainLoop
    PROVE  RefInv'
<1>1. /\ TypeOK /\ OpenInv /\ MainInv /\ MaxOpens \in Nat /\ opens \in Nat
      /\ opens <= MaxOpens /\ s_closed \in BOOLEAN
  BY ThreadSets DEF RefInv, TypeOK
<1>2. /\ sState' = sState /\ work' = work /\ current' = current /\ answer' = answer /\ calls' = calls
      /\ overtaken' = overtaken /\ DOMAIN work' = Threads
      /\ \A s \in Sessions : work'[s] = work[s]
  BY <1>1 DEF MainLoop, TypeOK
<1>3. \A s \in Sessions : reader[s] = "ended" => s <= opens
  BY <1>1, ThreadSets DEF MainInv
<1>4. ASSUME timers' = timers PROVE PollInv'
  <2>1. \A t \in Threads : \A k \in DOMAIN work[t] :
            Owes(work[t][k]) => \E l \in DOMAIN work'[t] : Owes(work'[t][l])
    BY <1>2
  <2> QED
    BY <1>2, <1>4, <2>1, PollStays
<1>5. ASSUME TypeOK', PollInv', OpenInv', MainInv' PROVE RefInv'
  BY <1>2, <1>5, ChannelStep
<1>6. CASE /\ main = "open" /\ opens < MaxOpens /\ main' = "at_open" /\ s_closed' = FALSE
           /\ UNCHANGED <<s_readerClosed, opens, reader, timers>>
  <2>1. TypeOK' /\ PollInv' /\ OpenInv'
    BY <1>1, <1>2, <1>4, <1>6 DEF TypeOK, OpenInv
  <2>2. ASSUME NEW s \in Sessions PROVE ReaderInv(s)'
    <3>1. reader[s] = "ended" => Gone(s)'
      BY <1>1, <1>3, <1>6, ThreadSets DEF Gone
    <3>2. ReaderInv(s)
      BY <1>1 DEF MainInv
    <3> QED
      BY <1>2, <1>6, <3>1, <3>2, ReaderStays
  <2>3. MainInv'
    BY <1>1, <1>2, <1>6, <2>2 DEF MainInv
  <2> QED
    BY <1>5, <2>1, <2>3
<1>7. CASE /\ main = "at_open" /\ main' = "initialize" /\ s_readerClosed' = FALSE
           /\ opens' = opens + 1 /\ reader' = [reader EXCEPT ![opens + 1] = "reading"]
           /\ UNCHANGED <<s_closed, timers>>
  <2>1. opens < MaxOpens /\ ~s_closed /\ opens + 1 \in Sessions
    BY <1>1, <1>7 DEF MainInv, Sessions
  <2>2. /\ reader' \in [Sessions -> {"none", "reading", "ended"}] /\ reader'[opens + 1] = "reading"
        /\ \A s \in Sessions : s # opens + 1 => reader'[s] = reader[s]
    BY <1>1, <1>7, <2>1 DEF TypeOK
  <2>3. TypeOK' /\ PollInv' /\ OpenInv'
    <3>1. opens' \in 0..MaxOpens /\ {s_closed', s_readerClosed', overtaken'} \subseteq BOOLEAN
      <4>1. opens + 1 \in 0..MaxOpens
        BY <1>1, <2>1
      <4>2. s_closed' = s_closed /\ overtaken' = overtaken /\ overtaken \in BOOLEAN
        BY <1>1, <1>2, <1>7 DEF TypeOK
      <4> QED
        BY <1>1, <1>7, <4>1, <4>2
    <3>2. TypeOK'
      BY <1>1, <1>2, <1>7, <2>2, <3>1 DEF TypeOK
    <3> QED
      BY <1>4, <1>7, <3>2 DEF OpenInv
  <2>4. \A s \in Sessions : reader[s] = "none" <=> s > opens
    BY <1>1 DEF MainInv
  <2>5. work[opens + 1] = <<>>
    <3>1. reader[opens + 1] = "none"
      BY <1>1, <2>1, <2>4
    <3> QED
      BY <1>1, <2>1, <3>1 DEF MainInv
  <2>6. ASSUME NEW s \in Sessions PROVE ReaderInv(s)'
    <3>1. CASE s = opens + 1
      BY <1>2, <2>5, <3>1 DEF ReaderInv
    <3>2. CASE s # opens + 1
      <4>1. reader[s] = "ended" => Gone(s)'
        BY <1>1, <1>3, <1>7, ThreadSets DEF Gone
      <4>2. ReaderInv(s)
        BY <1>1 DEF MainInv
      <4> QED
        BY <1>2, <1>7, <2>2, <3>2, <4>1, <4>2, ReaderStays
    <3> QED
      BY <3>1, <3>2
  <2>7. \A s \in Sessions : reader'[s] = "none" <=> s > opens'
    BY <1>1, <1>7, <2>2, <2>4, ThreadSets
  <2>8. \A s \in Sessions : reader'[s] # "ended" => work'[s] = <<>>
    BY <1>1, <1>2, <2>2, <2>5 DEF MainInv
  <2>9. \A s \in Sessions : reader'[s] = "reading" => s = opens'
    BY <1>1, <1>7, <2>2 DEF MainInv
  <2>10. MainInv'
    BY <1>1, <1>7, <2>1, <2>6, <2>7, <2>8, <2>9 DEF MainInv
  <2> QED
    BY <1>5, <2>3, <2>10
<1>8. CASE /\ main = "initialize" /\ main' = "waitForClose" /\ timers' = Scheduled("initializeCallback")
           /\ UNCHANGED <<s_closed, s_readerClosed, opens, reader>>
  <2>1. "initializeCallback" \in Callbacks
    BY DEF Callbacks
  <2>2. timers' \in [Callbacks -> 0..MaxTimers] /\ timers'["initializeCallback"] > 0
    BY <1>1, <1>8, <2>1, TimersAfter
  <2>3. TypeOK'
    BY <1>1, <1>2, <1>8, <2>2 DEF TypeOK
  <2>4. timers'["initializeCallback"] # 0
    BY <2>1, <2>2
  <2>5. PollInv' /\ OpenInv'
    BY <2>4 DEF PollInv, OpenInv
  <2>6. ASSUME NEW s \in Sessions PROVE ReaderInv(s)'
    <3>1. Gone(s)' <=> Gone(s)
      BY <1>8 DEF Gone
    <3>2. ReaderInv(s)
      BY <1>1 DEF MainInv
    <3> QED
      BY <1>2, <1>8, <3>1, <3>2, ReaderStays
  <2>7. MainInv'
    BY <1>1, <1>2, <1>8, <2>6 DEF MainInv
  <2> QED
    BY <1>5, <2>3, <2>5, <2>7
<1>9. CASE /\ main = "waitForClose" /\ s_closed /\ main' = "open"
           /\ UNCHANGED <<s_closed, s_readerClosed, opens, reader, timers>>
  <2>1. TypeOK' /\ PollInv' /\ OpenInv'
    BY <1>1, <1>2, <1>4, <1>9 DEF TypeOK, OpenInv
  <2>2. ASSUME NEW s \in Sessions PROVE ReaderInv(s)'
    <3>1. Gone(s)' <=> Gone(s)
      BY <1>9 DEF Gone
    <3>2. ReaderInv(s)
      BY <1>1 DEF MainInv
    <3> QED
      BY <1>2, <1>9, <3>1, <3>2, ReaderStays
  <2>3. MainInv'
    BY <1>1, <1>2, <1>9, <2>2 DEF MainInv
  <2> QED
    BY <1>5, <2>1, <2>3
<1> QED
  BY <1>6, <1>7, <1>8, <1>9 DEF MainLoop, mainLoop

\* The invariant is inductive.
LEMMA NextInv ==
    ASSUME RefInv, [Next]_vars
    PROVE  RefInv'
<1>1. ASSUME NEW t \in Threads, Step(t) PROVE RefInv'
  <2>1. CASE t = E
    BY <1>1, <2>1, AtStep, CompleteStep, SetStep, ChangedStep, LaterStep, EventOrCallStep, RespawnStep DEF Step
  <2>2. CASE t \in Sessions
    <3>1. ~Complete(t)
      BY <2>2, NotComplete DEF Complete
    <3> QED
      BY <1>1, <2>2, <3>1, ReaderAtStep, ReaderSetStep, ReaderChangedStep, ReaderLaterStep, ReaderCallStep,
         RespawnStep DEF Step
  <2> QED
    BY <2>1, <2>2, ThreadSets
<1>2. ASSUME NEW r \in Requests, Request(r) PROVE RefInv'
  BY <1>2, RequestStep
<1>3. ASSUME Return PROVE RefInv'
  BY <1>3, ReturnStep
<1>4. ASSUME NEW c \in Callbacks, Callback(c) PROVE RefInv'
  BY <1>4, CallbackStep
<1>5. ASSUME NEW r \in Sessions, onUnsolicited(r) \/ ReaderEnds(r) \/ onATReaderClosed(r) PROVE RefInv'
  BY <1>5, UnsolicitedStep, ReaderEndsStep, ReaderClosedStep
<1>6. ASSUME MainLoop PROVE RefInv'
  BY <1>6, MainLoopStep
<1>7. ASSUME UNCHANGED vars PROVE RefInv'
  <2>1. /\ sState' = sState /\ s_closed' = s_closed /\ s_readerClosed' = s_readerClosed /\ opens' = opens
        /\ main' = main /\ reader' = reader /\ timers' = timers /\ work' = work /\ current' = current
        /\ answer' = answer /\ calls' = calls /\ overtaken' = overtaken
    BY <1>7 DEF vars
  <2>2. TypeOK' /\ OpenInv'
    BY <2>1 DEF RefInv, TypeOK, OpenInv, Doing, Next_
  <2>3. PollInv'
    BY <2>1 DEF RefInv, PollInv, On
  <2>4. MainInv'
    BY <2>1 DEF RefInv, MainInv, ReaderInv, Past, Gone, On
  <2> QED
    BY <2>1, <2>2, <2>3, <2>4, ChannelStep
<1> QED
  BY <1>1, <1>2, <1>3, <1>4, <1>5, <1>6, <1>7 DEF Next

-----------------------------------------------------------------------------
(* What the invariant says of answers, of the poll and of the sessions. *)

\* The event of onDataCallListChanged, whatever its payload, has the size that
\* responseDataCallList expects.
LEMMA ListEventFits ==
    ASSUME NEW i, IsListEvent(i)
    PROVE  unsolResponseFunction(i.event, i.response, i.len).ret = 0
<1> DEFINE x == i.response
           n == i.len
<1>1. i.event = "DATA_CALL_LIST_CHANGED"
  BY DEF IsListEvent, Event
<1> HIDE DEF x, n
<1>2. unsolResponseFunction("DATA_CALL_LIST_CHANGED", x, n) = responseDataCallList(x, n)
  BY DEF unsolResponseFunction, VoidEvents, StringEvents, IntsEvents
<1>3. ~BadArray(x, n)
  <2>1. CASE x = Null /\ n = 0
    BY <2>1 DEF BadArray, ElementSize
  <2>2. CASE x \in Seq(Seq(Int)) /\ n = ElementSize * Len(x)
    <3>1. x # Null /\ Len(x) \in Nat
      BY <2>2, IntStructs
    <3>2. n % ElementSize = 0
      BY <2>2, <3>1 DEF ElementSize
    <3> QED
      BY <3>1, <3>2 DEF BadArray
  <2> QED
    BY <2>1, <2>2 DEF IsListEvent, x, n
<1>4. responseDataCallList(x, n).ret = 0
  <2> DEFINE out == <<n \div ElementSize>> \o FlattenSeq([j \in 1..(n \div ElementSize) |-> x[j]])
  <2>1. responseDataCallList(x, n) = Writes(out)
    BY <1>3 DEF responseDataCallList, ArrayOfStructs
  <2> HIDE DEF out
  <2> QED
    BY <2>1 DEF Writes
<1> QED
  BY <1>1, <1>2, <1>4 DEF x, n

\* The event of a callback is the only one that is left to report.
LEMMA EventsOf ==
    ASSUME NEW r \in Requests \union {NoRequest}, NEW i, Of(r, i), i.op = "event"
    PROVE  IsListEvent(i)
<1>1. i \notin Polling
  BY Ops DEF Polling, Settings, PollCommand
<1>2. CASE r = NoRequest
  <2>1. ~IsList(i, "callback") /\ i \notin Initializing /\ i # Set(OFF)
    BY Ops DEF IsList, Initializing
  <2> QED
    BY <1>1, <1>2, <2>1 DEF Of, OfCallback
<1>3. CASE r # NoRequest
  <2>1. i # Segfault /\ i # Later("sendCallStateChanged")
    BY Ops DEF Segfault
  <2>2. ~Marshals(r.request, i) /\ ~Handles(r.request, i)
    BY DEF Marshals, Handles
  <2>3. i \notin Powering(r.parcel)
    BY Ops DEF Powering, PowerCommand
  <2> QED
    BY <1>1, <1>3, <2>1, <2>2, <2>3 DEF Of, OfRequest
<1> QED
  BY <1>2, <1>3

LEMMA AnswersFollow ==
    ASSUME RefInv
    PROVE  AnswersRight
<1>1. AnsweredOnReturn
  <2> SUFFICES ASSUME work[E] = <<>>, current # NoRequest, answer.count = 0,
                      current.request # "SET_NETWORK_SELECTION_AUTOMATIC"
               PROVE  FALSE
    BY DEF RefInv, TypeOK, AnsweredOnReturn
  <2>1. \E k \in DOMAIN work[E] : Answering(On(E, k))
    BY DEF RefInv, AnswerInv
  <2> QED
    BY <2>1, Tuples
<1>2. NoInvalidResponse
  <2>1. answer.frame # <<>> => answer.frame[2] # RIL_ERRNO_INVALID_RESPONSE
    BY DEF RefInv, AnswerInv
  <2>2. ASSUME NEW t \in Threads, Doing(t, "event")
        PROVE  unsolResponseFunction(Next_(t).event, Next_(t).response, Next_(t).len).ret = 0
    <3>1. t = E
      BY <2>2, ThreadSets, NotComplete
    <3>2. work[E] # <<>> /\ Next_(E) = On(E, 1) /\ 1 \in DOMAIN work[E]
      BY <2>2, <3>1, TopOf DEF Doing, On
    <3>3. Of(current, On(E, 1)) /\ On(E, 1).op = "event"
      BY <2>2, <3>1, <3>2 DEF RefInv, CommandInv, Doing
    <3>4. IsListEvent(On(E, 1))
      BY <3>3, EventsOf DEF RefInv, TypeOK
    <3> QED
      BY <3>1, <3>2, <3>4, ListEventFits
  <2> QED
    BY <2>1, <2>2 DEF NoInvalidResponse
<1>3. EchoReturned
  BY DEF RefInv, AnswerInv, EchoReturned, OemHooks
<1>4. HiddenOnce
  BY DEF RefInv, CallsInv, HiddenOnce
<1>5. PowerConfirmed
  BY DEF RefInv, PowerInv, PowerConfirmed
<1> QED
  BY <1>1, <1>2, <1>3, <1>4, <1>5 DEF RefInv, AnswersRight

LEMMA PollFollows ==
    ASSUME RefInv
    PROVE  PollingAlive
<1> SUFFICES ASSUME Quiet, sState = SIM_NOT_READY, timers["initializeCallback"] = 0
             PROVE  timers["pollSIMState"] > 0
  BY DEF PollingAlive
<1>1. \A t \in Threads : ~\E k \in DOMAIN work[t] : Owes(On(t, k))
  BY Tuples DEF Quiet
<1> QED
  BY <1>1 DEF RefInv, PollInv

LEMMA SessionsFollow ==
    ASSUME RefInv
    PROVE  SessionsApart
<1>1. UnavailableMeansClosed
  <2>1. Quiet => ~Doing(E, "set")
    BY ThreadSets DEF Quiet, Doing
  <2> QED
    BY <2>1 DEF RefInv, OpenInv, UnavailableMeansClosed
<1>2. OwnReaderNeverWaits
  <2> SUFFICES ASSUME NEW r \in Sessions, Doing(r, "at")
               PROVE  overtaken /\ (r < opens \/ main = "at_open")
    BY DEF OwnReaderNeverWaits
  <2>1. Overtaker(r)
    BY ReaderAt DEF Doing
  <2> QED
    BY <2>1 DEF Overtaker, Gone
<1> QED
  BY <1>1, <1>2 DEF SessionsApart

\* The invariant holds in every behaviour.  Its conjuncts say what may be left to do
\* on each thread (CommandInv, MainInv, ReaderInv) and what that leaves owed: a
\* completion (AnswerInv), a poll of the SIM (PollInv), a radio that is opened
\* (OpenInv) or in the state that was confirmed (PowerInv).
THEOREM RefInvariant == Spec => []RefInv
<1>1. Init => RefInv
  BY InitInv
<1>2. RefInv /\ [Next]_vars => RefInv'
  BY NextInv
<1> QED
  BY <1>1, <1>2, PTL DEF Spec

\* onRequest in reference-ril.c, for every request and parcel the phone may send,
\* whatever the modem answers and whenever the channel closes: completed before
\* it returns, with a payload that the response function accepts, the one that was
\* sent when it is echoed, and a radio that is in the state confirmed.
THEOREM AnswersAreRight == Spec => []AnswersRight
<1>1. RefInv => AnswersRight
  BY AnswersFollow
<1> QED
  BY <1>1, RefInvariant, PTL

\* pollSIMState: a SIM that is not ready is polled again, however often the
\* channel closes and is opened.
THEOREM PollingStaysAlive == Spec => []PollingAlive
<1>1. RefInv => PollingAlive
  BY PollFollows
<1> QED
  BY <1>1, RefInvariant, PTL

\* onATReaderClosed and mainLoop: what is left of a session that has ended neither
\* makes the radio UNAVAILABLE in the next nor makes a reader wait for itself,
\* but for the overlap that overtaken records.
THEOREM SessionsStayApart == Spec => []SessionsApart
<1>1. RefInv => SessionsApart
  BY SessionsFollow
<1> QED
  BY <1>1, RefInvariant, PTL
=============================================================================
