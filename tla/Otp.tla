-------------------------------- MODULE Otp --------------------------------
(***************************************************************************)
(* The one-time login codes of one account, at the level of single Redis   *)
(* commands: requestOtp counts the request, gives the counter its window,  *)
(* looks the user up, stores a record that is not yet delivered, mails the *)
(* code, and marks the record delivered or removes it; verifyOtp is one    *)
(* Lua script.  Several requests overlap between any two commands, each    *)
(* overwriting the record of the one before; commands fail, a process may  *)
(* stop, and keys expire.  (NODE_ENV=development, which shows the code and *)
(* accepts any, is not modelled.)                                          *)
(*                                                                         *)
(* A code is named by the request that drew it: two live codes of one      *)
(* account are taken to differ.                                            *)
(***************************************************************************)
EXTENDS Naturals, FiniteSets

CONSTANTS
    Requests,       \* calls of requestOtp
    RequestMax,     \* OTP_REQUEST_MAX
    MaxAttempts     \* OTP_VERIFY_MAX_ATTEMPTS

ASSUME OtpAssumption ==
    /\ RequestMax \in Nat \ {0}
    /\ MaxAttempts \in Nat \ {0}
    /\ "none" \notin Requests

VARIABLES
    record,     \* the value under otp:..., None if the key is absent
    rate,       \* the counter under otp:rate:..., 0 if the key is absent
    rateTtl,    \* that key has an expiry
    pc,         \* where each request is
    account,    \* what findUserByIdentifier finds: "active", "blocked", "none"
    sent,       \* codes the user was mailed
    wrong,      \* wrong guesses judged while the code was the delivered one
    logins      \* tokens issued for a code

vars == <<record, rate, rateTtl, pc, account, sent, wrong, logins>>

None == [hash |-> "none", attempts |-> 0, delivered |-> FALSE]
Waiting == {"new", "expire", "lookup", "set", "send", "undo", "mark"}
Over == {"answered", "limited", "failed"}

Init ==
    /\ record = None
    /\ rate = 0 /\ rateTtl = FALSE
    /\ pc = [q \in Requests |-> "new"]
    /\ account \in {"active", "blocked", "none"}
    /\ sent = {}
    /\ wrong = [q \in Requests |-> 0]
    /\ logins = [q \in Requests |-> 0]

Goto(q, label) == pc' = [pc EXCEPT ![q] = label]

-----------------------------------------------------------------------------
(* requestOtp.                                                             *)

AfterCount(n) == IF n = 1 THEN "expire" ELSE IF n > RequestMax THEN "limited" ELSE "lookup"

IncrRate(q) ==
    /\ pc[q] = "new"
    /\ rate' = rate + 1
    /\ Goto(q, AfterCount(rate + 1))
    /\ UNCHANGED <<record, rateTtl, account, sent, wrong, logins>>

ExpireRate(q) ==
    /\ pc[q] = "expire"
    /\ rateTtl' = (rate > 0)
    /\ Goto(q, "lookup")
    /\ UNCHANGED <<record, rate, account, sent, wrong, logins>>

(* An account that does not exist, or has no address, gets the same answer. *)
Lookup(q) ==
    /\ pc[q] = "lookup"
    /\ Goto(q, IF account = "none" THEN "answered" ELSE "set")
    /\ UNCHANGED <<record, rate, rateTtl, account, sent, wrong, logins>>

SetRecord(q) ==
    /\ pc[q] = "set"
    /\ record' = [hash |-> q, attempts |-> 0, delivered |-> FALSE]
    /\ Goto(q, "send")
    /\ UNCHANGED <<rate, rateTtl, account, sent, wrong, logins>>

(* sendVerificationCode: an error may be reported although the mail left.  *)
SendMail(q) ==
    /\ pc[q] = "send"
    /\ \/ sent' = sent \cup {q} /\ Goto(q, "mark")
       \/ sent' \in {sent, sent \cup {q}} /\ Goto(q, "undo")
    /\ UNCHANGED <<record, rate, rateTtl, account, wrong, logins>>

(* Definitions named Fault_... are seeded faults: plausible slips in the   *)
(* code, each of which makes a property of this module fail.               *)
Fault_AnyRecord(q) == record # None
OwnRecord(q) == record.hash = q

(* OTP_DELETE_IF_HASH_MATCHES_SCRIPT after a failed mail.                  *)
Fault_DeleteAlways(q) == None
AfterUndo(q) == IF OwnRecord(q) THEN None ELSE record

Undo(q) ==
    /\ pc[q] = "undo"
    /\ record' = AfterUndo(q)
    /\ Goto(q, "failed")
    /\ UNCHANGED <<rate, rateTtl, account, sent, wrong, logins>>

(* OTP_MARK_DELIVERED_IF_HASH_MATCHES_SCRIPT: a request whose record is no *)
(* longer there is answered with an error.                                 *)
Mark(q) ==
    /\ pc[q] = "mark"
    /\ IF OwnRecord(q)
       THEN record' = [record EXCEPT !.delivered = TRUE] /\ Goto(q, "answered")
       ELSE UNCHANGED record /\ Goto(q, "failed")
    /\ UNCHANGED <<rate, rateTtl, account, sent, wrong, logins>>

(* A command fails, before or after Redis has carried it out, or the       *)
(* process stops.                                                          *)
Fails(q) ==
    /\ pc[q] \in Waiting \ {"new"}
    /\ \/ UNCHANGED <<record, rateTtl>>
       \/ pc[q] = "expire" /\ rateTtl' = (rate > 0) /\ UNCHANGED record
       \/ pc[q] = "set" /\ record' = [hash |-> q, attempts |-> 0, delivered |-> FALSE]
          /\ UNCHANGED rateTtl
       \/ pc[q] = "undo" /\ record' = AfterUndo(q) /\ UNCHANGED rateTtl
       \/ pc[q] = "mark" /\ OwnRecord(q) /\ UNCHANGED rateTtl
          /\ record' = [record EXCEPT !.delivered = TRUE]
    /\ Goto(q, "failed")
    /\ UNCHANGED <<rate, account, sent, wrong, logins>>

-----------------------------------------------------------------------------
(* verifyOtp: OTP_VERIFY_SCRIPT, then the account.                         *)

(* A wrong guess: the attempt is counted, or is the last one allowed.      *)
Fault_OneTooMany(n) == n > MaxAttempts
Exhausted(n) == n >= MaxAttempts

WrongGuess ==
    /\ record # None /\ record.delivered
    /\ record' = IF Exhausted(record.attempts + 1)
                 THEN None ELSE [record EXCEPT !.attempts = @ + 1]
    /\ wrong' = [wrong EXCEPT ![record.hash] = @ + 1]
    /\ UNCHANGED <<rate, rateTtl, pc, account, sent, logins>>

Fault_KeepUsed == record
AfterLogin == None

RightGuess ==
    /\ record # None /\ record.delivered
    /\ record' = AfterLogin
    /\ logins' = IF account = "active"
                 THEN [logins EXCEPT ![record.hash] = @ + 1] ELSE logins
    /\ UNCHANGED <<rate, rateTtl, pc, account, sent, wrong>>

-----------------------------------------------------------------------------
(* Time to live.                                                           *)

RecordExpires ==
    /\ record # None
    /\ record' = None
    /\ UNCHANGED <<rate, rateTtl, pc, account, sent, wrong, logins>>

RateExpires ==
    /\ rateTtl
    /\ rate' = 0 /\ rateTtl' = FALSE
    /\ UNCHANGED <<record, pc, account, sent, wrong, logins>>

RequestStep(q) ==
    \/ IncrRate(q) \/ ExpireRate(q) \/ Lookup(q) \/ SetRecord(q)
    \/ SendMail(q) \/ Undo(q) \/ Mark(q)

Next ==
    \/ \E q \in Requests : RequestStep(q) \/ Fails(q)
    \/ WrongGuess \/ RightGuess
    \/ RecordExpires \/ RateExpires

Spec == Init /\ [][Next]_vars

-----------------------------------------------------------------------------
(* A code logs in at most once, however many verifications of it run       *)
(* beside each other and beside new requests.                              *)
OneLogin == \A q \in Requests : logins[q] <= 1

(* A code is accepted only if the user was mailed it: a record that one    *)
(* request stores is never made usable by the mail of another.             *)
OnlyMailed ==
    /\ record.delivered => record.hash \in sent
    /\ \A q \in Requests : logins[q] > 0 => q \in sent

(* Nothing is tried against a code that has met MaxAttempts wrong guesses, *)
(* although marking and counting rewrite the same record.                  *)
GuessesBounded ==
    [][\A q \in Requests :
        wrong[q] >= MaxAttempts => wrong'[q] = wrong[q] /\ logins'[q] = logins[q]]_vars

(* A request that a later one has overtaken does no harm: it is answered   *)
(* only with its own code usable in Redis, and if its mail failed its      *)
(* clean-up spares a code that is usable.                                  *)
OvertakenHarmless ==
    [][\A q \in Requests :
        /\ account # "none" /\ pc[q] # "answered" /\ pc'[q] = "answered" =>
              record'.hash = q /\ record'.delivered
        /\ pc[q] = "undo" /\ pc'[q] # "undo" /\ record.delivered => record' = record]_vars

-----------------------------------------------------------------------------
(* docs/system-architecture-report.md lists otp:rate:... with a time to    *)
(* live of 900 seconds: the counter never outlives its window.             *)
CounterHasWindow == rate > 0 /\ ~rateTtl => \E q \in Requests : pc[q] = "expire"
=============================================================================
