-------------------------- MODULE PackageDownloader --------------------------
(***************************************************************************)
(* agent/downloader.py, PackageDownloader: one package at a time into a    *)
(* file named after the last part of its URL, resumed where an earlier     *)
(* attempt, call or process left off, and compared with the checksum of    *)
(* the notification.                                                       *)
(*                                                                         *)
(* A file is a sequence of words, and <<>> also a file that is not there:  *)
(* download() asks for a range only of a file with something in it.        *)
(* SHA-256 is taken to be injective, so the hash of a file is the file.    *)
(***************************************************************************)
EXTENDS Naturals, Sequences

CONSTANTS
  Words,
  Packages,     \* what a URL may name
  MaxRetries    \* config.max_retries: how often the request is made

ASSUME DownloadAssumption ==
  /\ Packages \subseteq Seq(Words) \ {<<>>}
  /\ MaxRetries \in Nat \ {0}

VARIABLES
  served,     \* server: the file at the URL of this call
  expected,   \* the package expected_sha256 is of
  local,      \* the file at local_path
  pc,         \* where download() is, or how the last call ended
  attempt,    \* the attempt of this call, from 1
  hashed,     \* what went into the hasher
  body,       \* what is still to come of the response
  found,      \* ghost: how long the file was when the call began
  disturbed   \* ghost: during this call the server had another file, refused
              \* a request or cut a response short

call == <<expected, found>>
vars == <<served, local, pc, attempt, hashed, body, disturbed, call>>

Running == pc \in {"request", "body"}

(***************************************************************************)
(* The caller.                                                             *)
(***************************************************************************)

\* download: another package's URL may end in the same name.
Call ==
  /\ ~Running
  /\ expected' \in Packages /\ served' \in Packages
  /\ disturbed' = (served' # expected')
  /\ found' = Len(local)
  /\ pc' = "request"
  /\ attempt' = 1
  /\ UNCHANGED <<local, hashed, body>>

\* cleanup, of the path a call returned.
Cleanup ==
  /\ pc = "ok"
  /\ pc' = "idle"
  /\ local' = <<>>
  /\ UNCHANGED <<served, attempt, hashed, body, disturbed, call>>

\* Counting begins anew after the last attempt.
RetryMutant ==
  /\ pc' = "request"
  /\ attempt' = IF attempt < MaxRetries THEN attempt + 1 ELSE 1

\* One attempt too many.
RetryOnceMoreMutant ==
  IF attempt <= MaxRetries
    THEN pc' = "request" /\ attempt' = attempt + 1
    ELSE pc' = "failed" /\ UNCHANGED attempt

\* _with_retry, after a DownloadError or ChecksumError.
Retry ==
  IF attempt < MaxRetries
    THEN pc' = "request" /\ attempt' = attempt + 1
    ELSE pc' = "failed" /\ UNCHANGED attempt

(***************************************************************************)
(* _download_with_resume, up to the response.                              *)
(***************************************************************************)

\* requests.get raises, or the status is none of 200, 206 and 416.
RequestFails ==
  /\ pc = "request"
  /\ Retry
  /\ disturbed' = TRUE
  /\ UNCHANGED <<served, local, hashed, body, call>>

\* 416: nothing is left to ask for.  A file with another checksum stays.
RangeNotSatisfiable ==
  /\ pc = "request"
  /\ local # <<>> /\ Len(local) >= Len(served)
  /\ IF local = expected THEN pc' = "ok" /\ UNCHANGED attempt ELSE Retry
  /\ UNCHANGED <<served, local, hashed, body, disturbed, call>>

PartialContentMutant ==
  /\ pc = "request"
  /\ local # <<>> /\ Len(local) < Len(served)
  /\ pc' = "body"
  /\ hashed' = <<>>
  /\ body' = SubSeq(served, Len(local) + 1, Len(served))
  /\ UNCHANGED <<served, local, attempt, disturbed, call>>

\* 206: what is there goes into the hasher before the rest is appended.
PartialContent ==
  /\ pc = "request"
  /\ local # <<>> /\ Len(local) < Len(served)
  /\ pc' = "body"
  /\ hashed' = local
  /\ body' = SubSeq(served, Len(local) + 1, Len(served))
  /\ UNCHANGED <<served, local, attempt, disturbed, call>>

\* 200: there was no range, or the server does not do ranges.
FullContent ==
  /\ pc = "request"
  /\ pc' = "body"
  /\ local' = <<>>
  /\ hashed' = <<>>
  /\ body' = served
  /\ UNCHANGED <<served, attempt, disturbed, call>>

(***************************************************************************)
(* Its body.                                                               *)
(***************************************************************************)

ReceiveChunk ==
  /\ pc = "body" /\ body # <<>>
  /\ local' = Append(local, Head(body))
  /\ hashed' = Append(hashed, Head(body))
  /\ body' = Tail(body)
  /\ UNCHANGED <<served, pc, attempt, disturbed, call>>

\* A body may end early without an error.
EndShort ==
  /\ pc = "body" /\ body # <<>>
  /\ body' = <<>>
  /\ disturbed' = TRUE
  /\ UNCHANGED <<served, local, pc, attempt, hashed, call>>

\* The connection breaks, or a write fails: neither exception is one that
\* _with_retry catches.
Break ==
  /\ pc = "body"
  /\ pc' = "raised"
  /\ disturbed' = TRUE
  /\ UNCHANGED <<served, local, attempt, hashed, body, call>>

CompareMutant ==
  /\ pc = "body" /\ body = <<>>
  /\ IF hashed = expected THEN pc' = "ok" /\ UNCHANGED attempt ELSE Retry
  /\ UNCHANGED <<served, local, hashed, body, disturbed, call>>

\* A file with another checksum is deleted.
Compare ==
  /\ pc = "body" /\ body = <<>>
  /\ IF hashed = expected
       THEN pc' = "ok" /\ UNCHANGED <<attempt, local>>
       ELSE Retry /\ local' = <<>>
  /\ UNCHANGED <<served, hashed, body, disturbed, call>>

(***************************************************************************)
(* What else may happen.                                                   *)
(***************************************************************************)

\* The publisher uploads another file to the URL.
Upload ==
  /\ served' \in Packages \ {served}
  /\ disturbed' = TRUE
  /\ UNCHANGED <<local, pc, attempt, hashed, body, call>>

\* The process ends, and what it had not flushed is lost.
Crash ==
  /\ Running
  /\ pc' = "idle"
  /\ \E n \in 0 .. Len(local) : local' = SubSeq(local, 1, n)
  /\ UNCHANGED <<served, attempt, hashed, body, disturbed, call>>

Init ==
  /\ local \in Packages \cup {<<>>}
  /\ served \in Packages /\ expected = served
  /\ pc = "idle" /\ attempt = 1
  /\ hashed = <<>> /\ body = <<>>
  /\ found = 0 /\ disturbed = FALSE

Download ==
  \/ RequestFails \/ RangeNotSatisfiable \/ PartialContent \/ FullContent
  \/ ReceiveChunk \/ EndShort \/ Break \/ Compare

Next == Call \/ Cleanup \/ Download \/ Upload \/ Crash

Spec == Init /\ [][Next]_vars

\* A call runs on by itself: requests time out and sleeps end.
FairSpec == Spec /\ WF_vars(Download)

-----------------------------------------------------------------------------
TypeOK ==
  /\ {served, expected} \subseteq Packages
  /\ {local, hashed, body} \subseteq Seq(Words)
  /\ pc \in {"idle", "request", "body", "ok", "failed", "raised"}
  /\ attempt \in 1 .. MaxRetries
  /\ found \in Nat
  /\ disturbed \in BOOLEAN

(***************************************************************************)
(* download() returns only a file that is the package expected_sha256 is   *)
(* of, all of it: also one put together by several attempts, calls or      *)
(* processes, from a file that was another package's, with the server's    *)
(* file replaced meanwhile (downloader.py:46-47, 102-107, 115-122).        *)
(***************************************************************************)
ReturnedIsExpected == pc = "ok" => local = expected

(***************************************************************************)
(* If the server has the package and answers in full, a call gives up only *)
(* over a file it found that was at least as long as the package, which    *)
(* 416 keeps (downloader.py:88-91): a shorter one, be it of another        *)
(* package, costs one attempt at most (downloader.py:115-121, 140-143).    *)
(***************************************************************************)
FailureExplained ==
  pc = "failed" /\ MaxRetries > 1 => disturbed \/ found >= Len(expected)

(***************************************************************************)
(* Every call ends, however often the server is unreachable or has another *)
(* file (downloader.py:134-152).                                           *)
(***************************************************************************)
CallEnds == pc = "request" ~> ~Running
=============================================================================
