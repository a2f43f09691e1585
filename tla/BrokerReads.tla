----------------------------- MODULE BrokerReads -----------------------------
(***************************************************************************)
(* Reads of the broker by processes that share one file of its access      *)
(* token (brokers/groww.py, with the retries of marketdata/live.py).  The  *)
(* file is written in place and removed by whoever is refused.             *)
(***************************************************************************)
EXTENDS Integers, FiniteSets

CONSTANTS
  Readers,         \* the processes: the API, the workers, their timers
  ReadAttempts,        \* of a GET over one token: ReadRetryTransport's attempts
  MaxTokens,       \* bound: the tokens issued
  MaxApprovals     \* bound: those of a session, which end the tokens issued before

ASSUME BrokerAssumption == IsFiniteSet(Readers)

VARIABLES
  file,      \* its number (0: there is none) and the token it holds (0: no valid JSON)
  issued,    \* tokens are numbered as they are issued
  live,      \* those the broker accepts
  expired,   \* those past their expiry less two minutes
  reader,    \* each process: its step, turn (the second is the refresh's), the token it holds, the
             \* one it was refused with, its tries, and its handle of the file
  approvals, \* ghost: those so far
  rejected   \* ghost: how many reads of each process were rejected since the last

brokerVars == <<file, issued, live, expired, reader, approvals, rejected>>

NoFile == [number |-> 0, holds |-> 0]
Resting == [step |-> "idle", turn |-> 1, token |-> 0, refused |-> 0, tries |-> 0, handle |-> 0]
Calm == [r \in Readers |-> 0]

BrokerInit ==
  /\ file = NoFile /\ issued = 0 /\ live = {} /\ expired = {}
  /\ reader = [r \in Readers |-> Resting]
  /\ approvals = 0 /\ rejected = Calm

At(r, step) == reader[r].step = step
Goes(r, step) == reader' = [reader EXCEPT ![r].step = step]
Ends(r) == reader' = [reader EXCEPT ![r] = Resting]
TurnedAway(r) ==
  reader' = [reader EXCEPT ![r] = [Resting EXCEPT !.step = "clear", !.refused = reader[r].token]]

\* _authorization_token(): a file that is missing, torn or expired is asked for anew.
Cached == file.holds # 0 /\ file.holds \notin expired

ReadCache(r) ==
  /\ At(r, "idle")
  /\ reader' = [reader EXCEPT ![r].step = IF Cached THEN "send" ELSE "ask",
                              ![r].token = IF Cached THEN file.holds ELSE 0, ![r].tries = 0]
  /\ UNCHANGED <<file, issued, live, expired, approvals, rejected>>

\* A POST is sent once; refused or unanswered, the read ends.
AskToken(r) ==
  /\ At(r, "ask")
  /\ \/ /\ issued < MaxTokens
        /\ issued' = issued + 1 /\ live' = live \cup {issued + 1}
        /\ reader' = [reader EXCEPT ![r].step = "open", ![r].token = issued + 1]
     \/ Ends(r) /\ UNCHANGED <<issued, live>>
  /\ UNCHANGED <<file, expired, approvals, rejected>>

\* write_text(): the file is created, or emptied, and then written through its handle,
\* which may by then be that of a removed file; over another's token of another length it
\* leaves no valid JSON.
OpenCache(r) ==
  LET number == IF file.number = 0 THEN reader[r].token ELSE file.number
  IN  /\ At(r, "open")
      /\ file' = [number |-> number, holds |-> 0]
      /\ reader' = [reader EXCEPT ![r].step = "write", ![r].handle = number]
      /\ UNCHANGED <<issued, live, expired, approvals, rejected>>

WriteCache(r) ==
  /\ At(r, "write")
  /\ IF file.number # reader[r].handle THEN UNCHANGED file
     ELSE \E token \in {reader[r].token} \cup (IF file.holds = 0 THEN {} ELSE {0}) :
            file' = [file EXCEPT !.holds = token]
  /\ Goes(r, "chmod")
  /\ UNCHANGED <<issued, live, expired, approvals, rejected>>

\* chmod() of a file another has removed is an error, and the read ends.
Protect(r) ==
  /\ At(r, "chmod")
  /\ IF file.number = 0 THEN Ends(r)
     ELSE reader' = [reader EXCEPT ![r].step = "send", ![r].handle = 0]
  /\ UNCHANGED <<file, issued, live, expired, approvals, rejected>>

\* _send() and _request(): a transient failure is tried again with the same token, a
\* rejection once more with a token read anew.
Send(r) ==
  /\ At(r, "send")
  /\ \/ /\ reader[r].token \in live
        /\ Ends(r) /\ UNCHANGED rejected
     \/ /\ reader[r].tries + 1 < ReadAttempts
        /\ reader' = [reader EXCEPT ![r].tries = @ + 1] /\ UNCHANGED rejected
     \/ /\ reader[r].tries + 1 = ReadAttempts
        /\ Ends(r) /\ UNCHANGED rejected
     \/ /\ reader[r].token \notin live
        /\ IF reader[r].turn = 1
           THEN TurnedAway(r) /\ UNCHANGED rejected
           ELSE Ends(r) /\ rejected' = [rejected EXCEPT ![r] = @ + 1]
  /\ UNCHANGED <<file, issued, live, expired, approvals>>

ClearedNothing(r) == UNCHANGED file   \* mutant: the refresh starts from the same file
Cleared(r) == file' = NoFile

\* _clear_token_cache(), and the second turn.
ClearCache(r) ==
  /\ At(r, "clear")
  /\ Cleared(r)
  /\ reader' = [reader EXCEPT ![r].step = "idle", ![r].turn = 2]
  /\ UNCHANGED <<issued, live, expired, approvals, rejected>>

\* The broker: a new approval ends the tokens before it, and a token ends with its life,
\* which is not in a process's hands: two minutes outlast a read.
InHand == {reader[r].token : r \in Readers}

Revoke ==
  /\ live # {} /\ approvals < MaxApprovals
  /\ live' = {}
  /\ approvals' = approvals + 1 /\ rejected' = Calm
  /\ UNCHANGED <<file, issued, expired, reader>>

Expire(n) ==
  /\ n \in live \ InHand
  /\ live' = live \ {n} /\ expired' = expired \cup {n}
  /\ UNCHANGED <<file, issued, reader, approvals, rejected>>

BrokerNext ==
  \/ \E r \in Readers :
       \/ ReadCache(r) \/ AskToken(r) \/ OpenCache(r) \/ WriteCache(r)
       \/ Protect(r) \/ Send(r) \/ ClearCache(r)
  \/ Revoke
  \/ \E n \in 1 .. issued : Expire(n)

BrokerSpec == BrokerInit /\ [][BrokerNext]_brokerVars

----------------------------------------------------------------------------
\* Processes that remove and write the token under one another settle ("Refresh once"): a
\* read is not sent again with the token it was refused with, whoever wrote the file since;
\* and after an approval no process's reads are rejected, over both turns, more often than
\* there are processes, for each may still write one token of before.
ReadsHeal ==
  \A r \in Readers :
    /\ reader[r].step = "send" => reader[r].token # reader[r].refused
    /\ rejected[r] <= Cardinality(Readers)
=============================================================================
