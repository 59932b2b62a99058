----------------------------- MODULE OtpProofs ------------------------------
(***************************************************************************)
(* Proofs about the one-time codes, for any number of overlapping requests *)
(* and any limits: a code logs in once, only if it was mailed, and only    *)
(* before its guesses are used up; an overtaken request does no harm.      *)
(***************************************************************************)
EXTENDS Otp, TLAPS

OtpTypes ==
    /\ record \in [hash : Requests \cup {"none"}, attempts : 0..(MaxAttempts - 1),
                   delivered : BOOLEAN]
    /\ pc \in [Requests -> Waiting \cup Over]
    /\ wrong \in [Requests -> Nat]
    /\ logins \in [Requests -> Nat]

(* A request that has not stored its record yet has left no trace.         *)
Unborn(q) == pc[q] \in {"new", "expire", "lookup", "set"}
NoTrace ==
    \A q \in Requests : Unborn(q) => record.hash # q /\ wrong[q] = 0 /\ logins[q] = 0

(* Only the mark makes a record usable, and only after its own mail left.  *)
MarkedLast ==
    \A q \in Requests :
        /\ pc[q] \in {"send", "undo", "mark"} /\ record.hash = q => ~record.delivered
        /\ pc[q] = "mark" => q \in sent

(* The stored code has not been used, and its attempts are its guesses.    *)
RecordFresh ==
    /\ record.hash = "none" => record = None
    /\ \A q \in Requests : record.hash = q => logins[q] = 0 /\ wrong[q] = record.attempts

OtpIInv == OtpTypes /\ NoTrace /\ MarkedLast /\ RecordFresh /\ OneLogin /\ OnlyMailed

LEMMA OtpInitial == Init => OtpIInv
BY OtpAssumption DEF Init, OtpIInv, OtpTypes, NoTrace, MarkedLast, RecordFresh, OneLogin, OnlyMailed,
   None, Waiting, Over, Unborn

(* A request moves on and leaves the record alone.                         *)
LEMMA MoveKeeps ==
    ASSUME OtpIInv, NEW q \in Requests, NEW label \in Waiting \cup Over, Goto(q, label),
           UNCHANGED <<record, wrong, logins>>, sent \subseteq sent',
           label \in {"new", "expire", "lookup", "set"} => Unborn(q),
           label \in {"send", "undo", "mark"} => pc[q] \in {"send", "undo", "mark"},
           label = "mark" => q \in sent'
    PROVE  OtpIInv'
<1> USE DEF OtpIInv
<1>1. pc' = [pc EXCEPT ![q] = label]
  BY DEF Goto
<1>2. OtpTypes'
  BY <1>1 DEF OtpTypes
<1>3. \A x \in Requests : pc'[x] = IF x = q THEN label ELSE pc[x]
  BY <1>1 DEF OtpTypes
<1>4. NoTrace' /\ MarkedLast'
  BY <1>3 DEF NoTrace, MarkedLast, Unborn
<1>5. RecordFresh' /\ OneLogin' /\ OnlyMailed'
  BY DEF RecordFresh, OneLogin, OnlyMailed, None
<1> QED BY <1>2, <1>4, <1>5

(* The record is removed: by an undo, by its last guess, by a login or by  *)
(* its time to live.                                                       *)
LEMMA DropKeeps ==
    ASSUME OtpIInv, record' = None, sent' = sent,
           OtpTypes', pc' = pc \/ \E q \in Requests : pc[q] = "undo" /\ Goto(q, "failed"),
           \A q \in Requests :
              \/ wrong'[q] = wrong[q] /\ logins'[q] = logins[q]
              \/ /\ record.hash = q /\ record.delivered /\ ~Unborn(q)
                 /\ logins'[q] \in {logins[q], logins[q] + 1}
    PROVE  OtpIInv'
<1> USE DEF OtpIInv
<1>1. record'.hash = "none" /\ record'.attempts = 0 /\ ~record'.delivered
  BY DEF None
<1>2. \A x \in Requests : /\ Unborn(x)' => Unborn(x)
                          /\ pc'[x] = "mark" => pc[x] = "mark"
  BY DEF Goto, OtpTypes, Unborn
<1>3. NoTrace' /\ MarkedLast'
  BY <1>1, <1>2, OtpAssumption DEF NoTrace, MarkedLast, Unborn
<1>4. RecordFresh'
  BY <1>1, OtpAssumption DEF RecordFresh, None
<1>5. OneLogin' /\ OnlyMailed'
  BY <1>1 DEF OneLogin, OnlyMailed, RecordFresh, OtpTypes
<1> QED BY <1>3, <1>4, <1>5

LEMMA StoreKeeps ==
    ASSUME OtpIInv, NEW q \in Requests, pc[q] = "set",
           NEW label \in {"send", "failed"}, Goto(q, label),
           record' = [hash |-> q, attempts |-> 0, delivered |-> FALSE],
           UNCHANGED <<sent, wrong, logins>>
    PROVE  OtpIInv'
<1> USE DEF OtpIInv
<1>1. \A x \in Requests : pc'[x] = IF x = q THEN label ELSE pc[x]
  BY DEF Goto, OtpTypes
<1>2. record'.hash = q /\ record'.attempts = 0 /\ ~record'.delivered /\ q # "none"
  BY OtpAssumption
<1>3. OtpTypes'
  BY OtpAssumption DEF OtpTypes, Goto, Waiting, Over
<1>4. wrong[q] = 0 /\ logins[q] = 0
  BY DEF NoTrace, Unborn
<1>5. NoTrace' /\ MarkedLast'
  BY <1>1, <1>2 DEF NoTrace, MarkedLast, Unborn
<1>6. RecordFresh' /\ OneLogin' /\ OnlyMailed'
  BY <1>2, <1>4 DEF RecordFresh, OneLogin, OnlyMailed
<1> QED BY <1>3, <1>5, <1>6

LEMMA MarkKeeps ==
    ASSUME OtpIInv, NEW q \in Requests, pc[q] = "mark", OwnRecord(q),
           NEW label \in {"answered", "failed"}, Goto(q, label),
           record' = [record EXCEPT !.delivered = TRUE],
           UNCHANGED <<sent, wrong, logins>>
    PROVE  OtpIInv'
<1> USE DEF OtpIInv
<1>1. \A x \in Requests : pc'[x] = IF x = q THEN label ELSE pc[x]
  BY DEF Goto, OtpTypes
<1>2. record'.hash = q /\ record'.attempts = record.attempts /\ record'.delivered /\ q # "none"
  BY OtpAssumption DEF OtpTypes, OwnRecord
<1>3. OtpTypes'
  BY DEF OtpTypes, Goto, Waiting, Over
<1>4. q \in sent /\ record.hash = q
  BY DEF MarkedLast, OwnRecord
<1>5. NoTrace' /\ MarkedLast'
  BY <1>1, <1>2, <1>4 DEF NoTrace, MarkedLast, Unborn
<1>6. RecordFresh' /\ OneLogin' /\ OnlyMailed'
  BY <1>2, <1>4 DEF RecordFresh, OneLogin, OnlyMailed
<1> QED BY <1>3, <1>5, <1>6

(* A usable record is the record of a request that is past storing it.     *)
LEMMA UsableMeans ==
    ASSUME OtpIInv, record # None
    PROVE  record.hash \in Requests /\ ~Unborn(record.hash)
BY DEF OtpIInv, OtpTypes, RecordFresh, NoTrace

LEMMA WrongGuessKeeps ==
    ASSUME OtpIInv, WrongGuess
    PROVE  OtpIInv'
<1> USE DEF OtpIInv
<1> DEFINE h == record.hash
<1>1. h \in Requests /\ ~Unborn(h) /\ record.delivered
  BY UsableMeans DEF WrongGuess
<1>2. /\ \A q \in Requests : wrong'[q] = IF q = h THEN wrong[q] + 1 ELSE wrong[q]
      /\ UNCHANGED <<pc, sent, logins>> /\ wrong' \in [Requests -> Nat]
  BY <1>1 DEF WrongGuess, OtpTypes
<1>3. CASE Exhausted(record.attempts + 1)
  <2>1. record' = None
    BY <1>3 DEF WrongGuess
  <2>2. OtpTypes'
    BY <1>2, <2>1, OtpAssumption DEF OtpTypes, None
  <2> QED BY <1>1, <1>2, <2>1, <2>2, DropKeeps
<1>4. CASE ~Exhausted(record.attempts + 1)
  <2>1. record' = [record EXCEPT !.attempts = @ + 1]
    BY <1>4 DEF WrongGuess
  <2>2. record'.hash = h /\ record'.attempts = record.attempts + 1 /\ record'.delivered = record.delivered
    BY <2>1 DEF OtpTypes
  <2>3. record.attempts + 1 \in 0..(MaxAttempts - 1)
    BY <1>4, OtpAssumption DEF Exhausted, OtpTypes
  <2>4. OtpTypes'
    BY <1>2, <2>1, <2>3 DEF OtpTypes
  <2>5. NoTrace' /\ MarkedLast'
    BY <1>1, <1>2, <2>2 DEF NoTrace, MarkedLast, Unborn
  <2>6. RecordFresh'
    BY <1>1, <1>2, <2>2, OtpAssumption DEF RecordFresh
  <2>7. OneLogin' /\ OnlyMailed'
    BY <1>2, <2>2 DEF OneLogin, OnlyMailed
  <2> QED BY <2>4, <2>5, <2>6, <2>7
<1> QED BY <1>3, <1>4

LEMMA RightGuessKeeps ==
    ASSUME OtpIInv, RightGuess
    PROVE  OtpIInv'
<1> USE DEF OtpIInv
<1> DEFINE h == record.hash
<1>1. h \in Requests /\ ~Unborn(h) /\ record.delivered
  BY UsableMeans DEF RightGuess
<1>2. /\ \A q \in Requests : logins'[q] = logins[q] \/ (q = h /\ logins'[q] = logins[q] + 1)
      /\ UNCHANGED <<pc, sent, wrong>> /\ logins' \in [Requests -> Nat] /\ record' = None
  BY <1>1 DEF RightGuess, AfterLogin, OtpTypes
<1>3. OtpTypes'
  BY <1>2, OtpAssumption DEF OtpTypes, None
<1>4. \A q \in Requests :
         \/ wrong'[q] = wrong[q] /\ logins'[q] = logins[q]
         \/ /\ record.hash = q /\ record.delivered /\ ~Unborn(q)
            /\ logins'[q] \in {logins[q], logins[q] + 1}
  BY <1>1, <1>2
<1> QED BY <1>2, <1>3, <1>4, DropKeeps

LEMMA OtpIInvKept ==
    ASSUME OtpIInv, [Next]_vars
    PROVE  OtpIInv'
<1> USE DEF OtpIInv
<1>1. CASE UNCHANGED <<record, pc, sent, wrong, logins>>
  BY <1>1 DEF OtpTypes, NoTrace, MarkedLast, RecordFresh, OneLogin, OnlyMailed, Unborn, None
<1>2. ASSUME NEW q \in Requests, RequestStep(q) PROVE OtpIInv'
  <2>1. CASE IncrRate(q)
    BY <2>1, MoveKeeps DEF IncrRate, AfterCount, Unborn, Waiting, Over
  <2>2. CASE ExpireRate(q)
    BY <2>2, MoveKeeps DEF ExpireRate, Unborn, Waiting, Over
  <2>3. CASE Lookup(q)
    BY <2>3, MoveKeeps DEF Lookup, Unborn, Waiting, Over
  <2>4. CASE SetRecord(q)
    BY <2>4, StoreKeeps DEF SetRecord
  <2>5. CASE SendMail(q)
    BY <2>5, MoveKeeps DEF SendMail, Unborn, Waiting, Over
  <2>6. CASE Undo(q)
    <3>1. CASE OwnRecord(q)
      <4>1. OtpTypes'
        BY <2>6, <3>1, OtpAssumption DEF Undo, AfterUndo, OtpTypes, None, Goto, Waiting, Over
      <4> QED BY <2>6, <3>1, <4>1, DropKeeps DEF Undo, AfterUndo
    <3>2. CASE ~OwnRecord(q)
      BY <2>6, <3>2, MoveKeeps DEF Undo, AfterUndo, Waiting, Over
    <3> QED BY <3>1, <3>2
  <2>7. CASE Mark(q)
    <3>1. CASE OwnRecord(q)
      BY <2>7, <3>1, MarkKeeps DEF Mark
    <3>2. CASE ~OwnRecord(q)
      BY <2>7, <3>2, MoveKeeps DEF Mark, Waiting, Over
    <3> QED BY <3>1, <3>2
  <2> QED BY <1>2, <2>1, <2>2, <2>3, <2>4, <2>5, <2>6, <2>7 DEF RequestStep
<1>3. ASSUME NEW q \in Requests, Fails(q) PROVE OtpIInv'
  <2>1. Goto(q, "failed") /\ UNCHANGED <<sent, wrong, logins>>
    BY <1>3 DEF Fails
  <2>2. CASE UNCHANGED record
    BY <2>1, <2>2, MoveKeeps DEF Waiting, Over
  <2>3. CASE pc[q] = "set" /\ record' = [hash |-> q, attempts |-> 0, delivered |-> FALSE]
    BY <2>1, <2>3, StoreKeeps
  <2>4. CASE pc[q] = "undo" /\ record' = AfterUndo(q) /\ OwnRecord(q)
    <3>1. OtpTypes'
      BY <2>1, <2>4, OtpAssumption DEF AfterUndo, OtpTypes, None, Goto, Waiting, Over
    <3> QED BY <2>1, <2>4, <3>1, DropKeeps DEF AfterUndo
  <2>5. CASE pc[q] = "undo" /\ record' = AfterUndo(q) /\ ~OwnRecord(q)
    BY <2>2, <2>5 DEF AfterUndo
  <2>6. CASE pc[q] = "mark" /\ OwnRecord(q) /\ record' = [record EXCEPT !.delivered = TRUE]
    BY <2>1, <2>6, MarkKeeps
  <2> QED BY <1>3, <2>2, <2>3, <2>4, <2>5, <2>6 DEF Fails
<1>4. CASE RecordExpires
  <2>1. OtpTypes'
    BY <1>4, OtpAssumption DEF RecordExpires, OtpTypes, None
  <2> QED BY <1>4, <2>1, DropKeeps DEF RecordExpires
<1>5. CASE RateExpires
  BY <1>1, <1>5 DEF RateExpires
<1>6. CASE UNCHANGED vars
  BY <1>1, <1>6 DEF vars
<1> QED
  BY <1>2, <1>3, <1>4, <1>5, <1>6, WrongGuessKeeps, RightGuessKeeps DEF Next

LEMMA OtpIInvHolds == Spec => []OtpIInv
BY OtpInitial, OtpIInvKept, PTL DEF Spec

(* A code logs in at most once, however many requests and verifications    *)
(* overlap between any two Redis commands and whichever of them fail or    *)
(* expire (the script of verifyOtp removes what it accepts).               *)
THEOREM CodesUsedOnce == Spec => []OneLogin
<1>1. OtpIInv => OneLogin
  BY DEF OtpIInv
<1> QED BY <1>1, OtpIInvHolds, PTL

(* A code logs in only if the user was mailed it, also when a newer        *)
(* request overtakes the mail or the activation of an older one fails      *)
(* (requestOtp activates the record that still holds its own code).        *)
THEOREM CodesMailed == Spec => []OnlyMailed
<1>1. OtpIInv => OnlyMailed
  BY DEF OtpIInv
<1> QED BY <1>1, OtpIInvHolds, PTL

(* A code that has met MaxAttempts wrong guesses is never judged again:    *)
(* the attempts in the record count every guess since it was stored.       *)
THEOREM GuessesEnd == Spec => GuessesBounded
<1> DEFINE A == \A q \in Requests :
                  wrong[q] >= MaxAttempts => wrong'[q] = wrong[q] /\ logins'[q] = logins[q]
<1>1. ASSUME OtpIInv, [Next]_vars PROVE A
  <2>1. CASE UNCHANGED <<wrong, logins>>
    BY <2>1
  <2>2. \A q \in Requests : record.hash = q => wrong[q] < MaxAttempts
    BY <1>1, OtpAssumption DEF OtpIInv, OtpTypes, RecordFresh
  <2>3. CASE WrongGuess
    BY <1>1, <2>2, <2>3, UsableMeans, OtpAssumption DEF WrongGuess, OtpIInv, OtpTypes
  <2>4. CASE RightGuess
    BY <1>1, <2>2, <2>4, UsableMeans, OtpAssumption DEF RightGuess, OtpIInv, OtpTypes
  <2>5. ASSUME NEW q \in Requests, RequestStep(q) \/ Fails(q) PROVE A
    BY <2>1, <2>5 DEF RequestStep, IncrRate, ExpireRate, Lookup, SetRecord, SendMail, Undo, Mark, Fails
  <2>6. CASE RecordExpires \/ RateExpires \/ UNCHANGED vars
    BY <2>1, <2>6 DEF RecordExpires, RateExpires, vars
  <2> QED BY <1>1, <2>3, <2>4, <2>5, <2>6 DEF Next
<1> QED BY <1>1, OtpIInvHolds, PTL DEF Spec, GuessesBounded

(* A request that a later one has overtaken is answered only with its own  *)
(* code usable, and its clean-up never removes a usable code.              *)
THEOREM OvertakenSafe == Spec => OvertakenHarmless
<1> DEFINE A == \A q \in Requests :
                  /\ account # "none" /\ pc[q] # "answered" /\ pc'[q] = "answered" =>
                        record'.hash = q /\ record'.delivered
                  /\ pc[q] = "undo" /\ pc'[q] # "undo" /\ record.delivered => record' = record
<1>1. ASSUME OtpIInv, [Next]_vars PROVE A
  <2>1. CASE UNCHANGED pc
    BY <2>1
  <2>2. ASSUME NEW q \in Requests, RequestStep(q) \/ Fails(q),
               NEW x \in Requests, x # q
        PROVE  pc'[x] = pc[x]
    BY <1>1, <2>2 DEF RequestStep, IncrRate, ExpireRate, Lookup, SetRecord, SendMail, Undo, Mark, Fails,
                Goto, OtpIInv, OtpTypes
  <2>3. ASSUME NEW q \in Requests, RequestStep(q) \/ Fails(q),
               account # "none", pc'[q] = "answered", pc[q] # "answered"
        PROVE  record'.hash = q /\ record'.delivered
    <3>1. Mark(q) /\ OwnRecord(q)
      BY <1>1, <2>3 DEF RequestStep, IncrRate, AfterCount, ExpireRate, Lookup, SetRecord, SendMail, Undo,
                  Mark, Fails, Goto, OtpIInv, OtpTypes
    <3> QED BY <1>1, <3>1 DEF Mark, OwnRecord, OtpIInv, OtpTypes
  <2>4. ASSUME NEW q \in Requests, RequestStep(q) \/ Fails(q),
               pc[q] = "undo", record.delivered
        PROVE  record' = record
    <3>1. ~OwnRecord(q)
      BY <1>1, <2>4 DEF OtpIInv, MarkedLast, OwnRecord
    <3> QED BY <2>4, <3>1 DEF RequestStep, IncrRate, ExpireRate, Lookup, SetRecord, SendMail, Undo,
                              Mark, Fails, AfterUndo
  <2>5. CASE WrongGuess \/ RightGuess \/ RecordExpires \/ RateExpires \/ UNCHANGED vars
    BY <2>1, <2>5 DEF WrongGuess, RightGuess, RecordExpires, RateExpires, vars
  <2> QED BY <1>1, <2>2, <2>3, <2>4, <2>5 DEF Next
<1> QED BY <1>1, OtpIInvHolds, PTL DEF Spec, OvertakenHarmless
=============================================================================
