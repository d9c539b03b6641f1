----------------------- MODULE PackageDownloaderProofs -----------------------
(***************************************************************************)
(* Theorems about PackageDownloader, for all packages and any number of    *)
(* attempts.                                                               *)
(***************************************************************************)
EXTENDS PackageDownloader, SequenceTheorems, TLAPS

LEMMA PackageIsSeq ==
  ASSUME NEW p \in Packages
  PROVE  p \in Seq(Words) /\ p # <<>> /\ Len(p) \in Nat /\ Len(p) > 0
  BY DownloadAssumption, EmptySeq, LenProperties

\* A retry keeps the count of the attempts within its bound.
LEMMA RetryType ==
  ASSUME attempt \in 1 .. MaxRetries, Retry
  PROVE  /\ attempt' \in 1 .. MaxRetries
         /\ \/ pc' = "request" /\ attempt' > 1
            \/ pc' = "failed" /\ attempt = MaxRetries
  BY DownloadAssumption DEF Retry

LEMMA TypeNext ==
  ASSUME TypeOK, [Next]_vars
  PROVE  TypeOK'
<1> USE DEF TypeOK, call
<1>0. <<>> \in Seq(Words)
  BY EmptySeq
<1>1. CASE Call
  <2>1. Len(local) \in Nat
    BY LenProperties
  <2> QED
    BY <1>1, <2>1, DownloadAssumption DEF Call
<1>2. CASE Cleanup
  BY <1>0, <1>2 DEF Cleanup
<1>3. CASE RequestFails
  BY <1>3, RetryType DEF RequestFails
<1>4. CASE RangeNotSatisfiable
  BY <1>4, RetryType DEF RangeNotSatisfiable
<1>5. CASE PartialContent
  <2>1. served \in Seq(Words) /\ Len(served) \in Nat /\ Len(local) \in Nat
    BY PackageIsSeq, LenProperties
  <2>2. \A i \in Len(local) + 1 .. Len(served) : served[i] \in Words
    BY <2>1, ElementOfSeq
  <2>3. SubSeq(served, Len(local) + 1, Len(served)) \in Seq(Words)
    BY <2>1, <2>2, SubSeqProperties
  <2> QED
    BY <1>5, <2>3 DEF PartialContent
<1>6. CASE FullContent
  BY <1>0, <1>6, PackageIsSeq DEF FullContent
<1>7. CASE ReceiveChunk
  <2>1. Head(body) \in Words /\ Tail(body) \in Seq(Words)
    BY <1>7, HeadTailProperties DEF ReceiveChunk
  <2>2. Append(local, Head(body)) \in Seq(Words)
        /\ Append(hashed, Head(body)) \in Seq(Words)
    BY <2>1, AppendProperties
  <2> QED
    BY <1>7, <2>1, <2>2 DEF ReceiveChunk
<1>8. CASE EndShort \/ Break \/ Upload
  BY <1>0, <1>8 DEF EndShort, Break, Upload
<1>9. CASE Compare
  BY <1>0, <1>9, RetryType DEF Compare
<1>10. CASE Crash
  <2>1. PICK n \in 0 .. Len(local) : local' = SubSeq(local, 1, n)
    BY <1>10 DEF Crash
  <2>2. Len(local) \in Nat
    BY LenProperties
  <2>3. \A i \in 1 .. n : local[i] \in Words
    BY <2>2, ElementOfSeq
  <2>4. local' \in Seq(Words)
    BY <2>1, <2>2, <2>3, SubSeqProperties
  <2> QED
    BY <1>10, <2>4 DEF Crash
<1>11. CASE UNCHANGED vars
  BY <1>11 DEF vars
<1> QED
  BY <1>1, <1>2, <1>3, <1>4, <1>5, <1>6, <1>7, <1>8, <1>9, <1>10, <1>11
     DEF Next, Download

(***************************************************************************)
(* TypeOK.                                                                 *)
(***************************************************************************)
THEOREM TypeCorrect == Spec => []TypeOK
<1>1. Init => TypeOK
  <2> SUFFICES ASSUME Init PROVE TypeOK
    OBVIOUS
  <2>1. <<>> \in Seq(Words)
    BY EmptySeq
  <2>2. local \in Seq(Words)
    BY <2>1, PackageIsSeq DEF Init
  <2>3. 1 \in 1 .. MaxRetries
    BY DownloadAssumption
  <2> QED
    BY <2>1, <2>2, <2>3 DEF Init, TypeOK
<1>2. TypeOK /\ [Next]_vars => TypeOK'
  BY TypeNext
<1> QED
  BY <1>1, <1>2, PTL DEF Spec

-----------------------------------------------------------------------------
(***************************************************************************)
(* While a body arrives the hasher has had exactly what the file has: also *)
(* the part that was there before.                                         *)
(***************************************************************************)
HashedIsLocal == pc = "body" => hashed = local

LEMMA ReturnedNext ==
  ASSUME HashedIsLocal, ReturnedIsExpected, [Next]_vars
  PROVE  HashedIsLocal' /\ ReturnedIsExpected'
<1> USE DEF HashedIsLocal, ReturnedIsExpected, call
<1>1. CASE Call \/ Cleanup \/ Upload \/ Crash
  BY <1>1 DEF Call, Cleanup, Upload, Crash, Running
<1>2. CASE RequestFails
  BY <1>2 DEF RequestFails, Retry
<1>3. CASE RangeNotSatisfiable
  BY <1>3 DEF RangeNotSatisfiable, Retry
<1>4. CASE PartialContent \/ FullContent
  BY <1>4 DEF PartialContent, FullContent
<1>5. CASE ReceiveChunk \/ EndShort \/ Break
  BY <1>5 DEF ReceiveChunk, EndShort, Break
<1>6. CASE Compare
  BY <1>6 DEF Compare, Retry
<1>7. CASE UNCHANGED vars
  BY <1>7 DEF vars
<1> QED
  BY <1>1, <1>2, <1>3, <1>4, <1>5, <1>6, <1>7 DEF Next, Download

(***************************************************************************)
(* ReturnedIsExpected: whatever was on the disk, whichever attempts, calls *)
(* and processes put the file together, and whatever the server had        *)
(* meanwhile.                                                              *)
(***************************************************************************)
THEOREM ReturnsExpected == Spec => []ReturnedIsExpected
<1>1. Init => HashedIsLocal /\ ReturnedIsExpected
  BY DEF Init, HashedIsLocal, ReturnedIsExpected
<1>2. HashedIsLocal /\ ReturnedIsExpected /\ [Next]_vars
        => HashedIsLocal' /\ ReturnedIsExpected'
  BY ReturnedNext
<1> QED
  BY <1>1, <1>2, PTL DEF Spec

-----------------------------------------------------------------------------
LEMMA MoveHead ==
  ASSUME NEW S, NEW s \in Seq(S), NEW t \in Seq(S), t # <<>>
  PROVE  Append(s, Head(t)) \o Tail(t) = s \o t
<1>1. /\ Head(t) \in S /\ Tail(t) \in Seq(S)
      /\ Len(Tail(t)) = Len(t) - 1
      /\ \A i \in 1 .. Len(Tail(t)) : Tail(t)[i] = t[i + 1]
  BY HeadTailProperties
<1>2. /\ Len(t) \in Nat /\ Len(t) > 0 /\ Len(s) \in Nat
  BY LenProperties, EmptySeq
<1>3. /\ Append(s, Head(t)) \in Seq(S) /\ Len(Append(s, Head(t))) = Len(s) + 1
      /\ \A i \in 1 .. Len(s) : Append(s, Head(t))[i] = s[i]
      /\ Append(s, Head(t))[Len(s) + 1] = Head(t)
  BY <1>1, AppendProperties
<1>4. Head(t) = t[1]
  BY <1>2
<1> DEFINE u == Append(s, Head(t)) \o Tail(t)
           v == s \o t
<1>5. /\ u \in Seq(S) /\ Len(u) = Len(s) + Len(t)
      /\ \A i \in 1 .. Len(s) + Len(t) :
           u[i] = IF i <= Len(s) + 1 THEN Append(s, Head(t))[i]
                  ELSE Tail(t)[i - (Len(s) + 1)]
  BY <1>1, <1>2, <1>3, ConcatProperties
<1>6. /\ v \in Seq(S) /\ Len(v) = Len(s) + Len(t)
      /\ \A i \in 1 .. Len(s) + Len(t) :
           v[i] = IF i <= Len(s) THEN s[i] ELSE t[i - Len(s)]
  BY <1>2, ConcatProperties
<1>7. \A i \in 1 .. Len(u) : u[i] = v[i]
  <2> HIDE DEF u, v
  <2> SUFFICES ASSUME NEW i \in 1 .. Len(s) + Len(t) PROVE u[i] = v[i]
    BY <1>5
  <2>1. CASE i <= Len(s)
    BY <1>2, <1>3, <1>5, <1>6, <2>1
  <2>2. CASE i = Len(s) + 1
    <3>1. i <= Len(s) + 1 /\ ~(i <= Len(s)) /\ i - Len(s) = 1
      BY <1>2, <2>2
    <3>2. u[i] = Append(s, Head(t))[i] /\ v[i] = t[i - Len(s)]
      BY <1>5, <1>6, <3>1
    <3> QED
      BY <1>3, <1>4, <2>2, <3>1, <3>2
  <2>3. CASE i > Len(s) + 1
    <3>1. /\ i - (Len(s) + 1) \in 1 .. Len(Tail(t))
          /\ (i - (Len(s) + 1)) + 1 = i - Len(s)
      BY <1>1, <1>2, <2>3
    <3>2. u[i] = Tail(t)[i - (Len(s) + 1)] /\ v[i] = t[i - Len(s)]
      BY <1>2, <1>5, <1>6, <2>3
    <3> QED
      BY <1>1, <3>1, <3>2
  <2> QED
    BY <1>2, <2>1, <2>2, <2>3
<1> HIDE DEF u, v
<1>8. u = v
  BY <1>5, <1>6, <1>7, SeqEqual
<1> QED
  BY <1>8 DEF u, v

(***************************************************************************)
(* An undisturbed call that found a shorter file: from the second attempt  *)
(* on it begins with no file, and the body completes what was hashed to    *)
(* the package.                                                            *)
(***************************************************************************)
Undisturbed == ~disturbed /\ found < Len(expected)

FailureInv ==
  Undisturbed =>
    /\ served = expected
    /\ pc = "request" => IF attempt = 1 THEN Len(local) = found ELSE local = <<>>
    /\ pc = "body" /\ attempt > 1 => hashed \o body = expected
    /\ pc = "failed" => MaxRetries = 1

LEMMA FailureNext ==
  ASSUME TypeOK, FailureInv, [Next]_vars
  PROVE  FailureInv'
<1> USE DEF call, Undisturbed
<1>0. /\ attempt \in 1 .. MaxRetries /\ MaxRetries \in Nat
      /\ served \in Seq(Words) /\ expected \in Seq(Words)
      /\ Len(expected) \in Nat /\ found \in Nat /\ Len(local) \in Nat
  BY DownloadAssumption, PackageIsSeq, LenProperties DEF TypeOK
<1>1. CASE Call
  BY <1>1 DEF Call, FailureInv
<1>2. CASE Cleanup \/ Crash
  BY <1>2 DEF Cleanup, Crash, FailureInv
<1>3. CASE RequestFails \/ EndShort \/ Break \/ Upload
  BY <1>3 DEF RequestFails, EndShort, Break, Upload, FailureInv
<1>4. CASE RangeNotSatisfiable
  <2>1. SUFFICES ASSUME Undisturbed PROVE FALSE
    BY <1>4 DEF RangeNotSatisfiable, FailureInv
  <2>2. Len(local) = found /\ served = expected /\ Len(local) >= Len(served)
    BY <1>4, <2>1 DEF RangeNotSatisfiable, FailureInv
  <2> QED
    BY <1>0, <2>1, <2>2
<1>5. CASE PartialContent
  BY <1>0, <1>5 DEF PartialContent, FailureInv
<1>6. CASE FullContent
  <2>1. <<>> \o served = served
    BY <1>0, ConcatEmptySeq
  <2> QED
    BY <1>6, <2>1 DEF FullContent, FailureInv
<1>7. CASE ReceiveChunk
  <2>1. Append(hashed, Head(body)) \o Tail(body) = hashed \o body
    BY <1>7, MoveHead DEF ReceiveChunk, TypeOK
  <2> QED
    BY <1>7, <2>1 DEF ReceiveChunk, FailureInv
<1>8. CASE Compare
  <2>1. SUFFICES ASSUME Undisturbed, hashed # expected, Retry, local' = <<>>,
                        UNCHANGED <<served, disturbed, call>>
                 PROVE  FailureInv'
    BY <1>8 DEF Compare, FailureInv
  <2>2. hashed \o <<>> = hashed
    BY ConcatEmptySeq DEF TypeOK
  <2>3. attempt = 1
    BY <1>0, <1>8, <2>1, <2>2 DEF Compare, FailureInv
  <2>4. \/ pc' = "request" /\ attempt' > 1
        \/ pc' = "failed" /\ attempt = MaxRetries
    BY <1>0, <2>1, RetryType
  <2>5. CASE pc' = "request" /\ attempt' > 1
    BY <2>1, <2>5 DEF FailureInv
  <2>6. CASE pc' = "failed" /\ attempt = MaxRetries
    BY <2>1, <2>3, <2>6 DEF FailureInv
  <2> QED
    BY <2>4, <2>5, <2>6
<1>9. CASE UNCHANGED vars
  BY <1>9 DEF vars, FailureInv
<1> QED
  BY <1>1, <1>2, <1>3, <1>4, <1>5, <1>6, <1>7, <1>8, <1>9 DEF Next, Download

(***************************************************************************)
(* FailureExplained, for any number of attempts above one.                 *)
(***************************************************************************)
THEOREM FailuresExplained == Spec => []FailureExplained
<1>1. Init => FailureInv
  BY DEF Init, FailureInv
<1>2. TypeOK /\ FailureInv /\ [Next]_vars => FailureInv'
  BY FailureNext
<1>3. TypeOK /\ FailureInv => FailureExplained
  <2> SUFFICES ASSUME TypeOK, FailureInv PROVE FailureExplained
    OBVIOUS
  <2>1. found \in Nat /\ Len(expected) \in Nat
    BY PackageIsSeq DEF TypeOK
  <2> QED
    BY <2>1 DEF FailureInv, FailureExplained, Undisturbed
<1> QED
  BY <1>1, <1>2, <1>3, TypeCorrect, PTL DEF Spec

-----------------------------------------------------------------------------
(***************************************************************************)
(* What CallEnds rests on besides fairness: a call has boundedly many      *)
(* steps of its own, for one that leaves it running makes a later attempt, *)
(* or takes this one from the request to the body, or leaves less of the   *)
(* body (downloader.py:102-107, 134-152).                                  *)
(***************************************************************************)
CallAdvances ==
  [][Running /\ Running' /\ served' = served =>
       \/ attempt' > attempt
       \/ /\ attempt' = attempt
          /\ pc' = "body"
          /\ pc = "request" \/ Len(body') < Len(body)]_vars

(***************************************************************************)
(* CallAdvances: with any packages and bound on the attempts, a call has   *)
(* only boundedly many steps to make, for attempts are bounded by TypeOK   *)
(* and a body is finite.                                                   *)
(***************************************************************************)
THEOREM CallsAdvance == Spec => CallAdvances
<1> DEFINE Advances == Running /\ Running' /\ served' = served =>
                         \/ attempt' > attempt
                         \/ /\ attempt' = attempt
                            /\ pc' = "body"
                            /\ pc = "request" \/ Len(body') < Len(body)
<1>1. TypeOK /\ [Next]_vars => [Advances]_vars
  <2> SUFFICES ASSUME TypeOK, Next, Running, Running', served' = served
               PROVE  Advances
    OBVIOUS
  <2>1. attempt \in Nat /\ attempt + 1 > attempt
    BY DownloadAssumption DEF TypeOK
  <2>2. ~(Call \/ Cleanup \/ Upload \/ Crash \/ Break)
    BY DEF Call, Cleanup, Upload, Crash, Break, Running
  <2>3. CASE RequestFails
    BY <2>1, <2>3 DEF RequestFails, Retry, Running
  <2>4. CASE RangeNotSatisfiable
    BY <2>1, <2>4 DEF RangeNotSatisfiable, Retry, Running
  <2>5. CASE PartialContent \/ FullContent
    BY <2>5 DEF PartialContent, FullContent
  <2>6. CASE ReceiveChunk \/ EndShort
    <3>1. body \in Seq(Words) /\ body # <<>>
      BY <2>6 DEF TypeOK, ReceiveChunk, EndShort
    <3>2. Len(Tail(body)) < Len(body) /\ Len(<<>>) < Len(body)
      BY <3>1, EmptySeq
    <3> QED
      BY <2>6, <3>2 DEF ReceiveChunk, EndShort
  <2>7. CASE Compare
    BY <2>1, <2>7 DEF Compare, Retry, Running
  <2> QED
    BY <2>2, <2>3, <2>4, <2>5, <2>6, <2>7 DEF Next, Download
<1> QED
  BY <1>1, TypeCorrect, PTL DEF Spec, CallAdvances
=============================================================================
