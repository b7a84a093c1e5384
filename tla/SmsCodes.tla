------------------------------ MODULE SmsCodes ------------------------------
(***************************************************************************)
(* Verification codes by text message, for one phone and the address its   *)
(* owner asks from (internal/auth: SendSMSCode, the two scripts of         *)
(* sms_code.go, Register, SMSLogin).  Everything but the user is kept in   *)
(* Redis under keys that expire; a script runs as one step.                *)
(*                                                                         *)
(* A code is reserved, sent through the operator, and saved, in three      *)
(* steps: the answer to it may come before it is saved, and a slow         *)
(* operator may let a newer code be saved first.                           *)
(***************************************************************************)
EXTENDS Integers, Sequences, FiniteSets

CONSTANTS
    Purposes,       \* {"register", "login"}
    Senders,        \* requests for a code under way
    Cooldown,       \* smsCooldown
    Windows,        \* limits: [length, max], of the phone and of the address
    CodeTTL,        \* smsCodeTTL
    VerifyAttempts, \* smsVerifyAttempts
    MaxCodes,       \* bound: codes
    MaxTime         \* bound: time

ASSUME SmsAssumption ==
    /\ Purposes \subseteq {"register", "login"}
    /\ Cooldown \in Nat \ {0}
    /\ Windows \subseteq [length : Nat \ {0}, max : Nat \ {0}]
    /\ CodeTTL \in Nat \ {0}
    /\ VerifyAttempts \in Nat \ {0}
    /\ MaxTime \in Nat

VARIABLES
    codes,          \* every code reserved: [purpose, at, saved, wrong, admitted]
    sending,        \* SendSMSCode under way
    coolUntil,      \* the cooldown key of each purpose: when it expires
    counters,       \* the counter of each window: [n, until]
    stored,         \* the code key of each purpose: [code, until]
    attempts,       \* the attempts key of each purpose: [n, until]
    registered,     \* there is a user with this phone
    time

smsVars == <<codes, sending, coolUntil, counters, stored, attempts, registered, time>>

NotSending == [at |-> "idle"]
NoKey == [n |-> 0, until |-> 0]
NoCode == [code |-> 0, until |-> 0]
Never == MaxTime + CodeTTL + 1      \* a key without an expiry
NotSaved == -1

KeyLives(key) == key.until > time

-----------------------------------------------------------------------------
(* The two scripts *)

Count(w) == IF KeyLives(counters[w]) THEN counters[w].n ELSE 0

Allowed(p) == coolUntil[p] <= time /\ \A w \in Windows : Count(w) < w.max

\* reserveSMSCode: a counter expires one window after its first increment.
Reserve(p) ==
    /\ Allowed(p)
    /\ coolUntil' = [coolUntil EXCEPT ![p] = time + Cooldown]
    /\ counters' = [w \in Windows |->
                      IF KeyLives(counters[w]) THEN [counters[w] EXCEPT !.n = @ + 1]
                      ELSE [n |-> 1, until |-> time + w.length]]

\* verifySMSCode, the wrong answer: the first one starts the attempts, which live as long
\* as the code they were made against; PTTL is 0 in the last moment of a code.
AttemptExpiries(p) ==
    IF KeyLives(attempts[p]) THEN {attempts[p].until}
    ELSE {stored[p].until} \cup (IF stored[p].until = time + 1 THEN {Never} ELSE {})

AttemptsAfter(p) == (IF KeyLives(attempts[p]) THEN attempts[p].n ELSE 0) + 1

-----------------------------------------------------------------------------
(* SendSMSCode *)

\* Reserve, whether or not anything is sent: a login for an unknown phone costs the same.
AskForCode(s, p) ==
    /\ sending[s].at = "idle"
    /\ p = "register" => ~registered
    /\ Len(codes) < MaxCodes
    /\ Reserve(p)
    /\ codes' = Append(codes, [purpose |-> p, at |-> time, saved |-> NotSaved, wrong |-> 0,
                               admitted |-> 0])
    /\ sending' = IF p = "login" /\ ~registered THEN sending
                  ELSE [sending EXCEPT ![s] = [at |-> "send", code |-> Len(codes) + 1]]
    /\ UNCHANGED <<stored, attempts, registered, time>>

SendCode(s, ok) ==
    /\ sending[s].at = "send"
    /\ sending' = [sending EXCEPT ![s] = IF ok THEN [@ EXCEPT !.at = "save"] ELSE NotSending]
    /\ UNCHANGED <<codes, coolUntil, counters, stored, attempts, registered, time>>

\* Save: the attempts made so far are not forgotten.
SaveCode(s, ok) ==
    /\ sending[s].at = "save"
    /\ LET c == sending[s].code
           p == codes[c].purpose IN
         IF ok THEN /\ stored' = [stored EXCEPT ![p] = [code |-> c, until |-> time + CodeTTL]]
                    /\ codes' = [codes EXCEPT ![c].saved = time]
         ELSE UNCHANGED <<stored, codes>>
    /\ sending' = [sending EXCEPT ![s] = NotSending]
    /\ UNCHANGED <<coolUntil, counters, attempts, registered, time>>

-----------------------------------------------------------------------------
(* Register and SMSLogin *)

KeysAfterRight_Kept(p) == UNCHANGED <<stored, attempts>>
KeysAfterRight(p) ==
    /\ stored' = [stored EXCEPT ![p] = NoCode]
    /\ attempts' = [attempts EXCEPT ![p] = NoKey]

\* The right code: it is spent, whatever becomes of the registration or the login.
AnswerRight(p) ==
    /\ KeyLives(stored[p])
    /\ KeysAfterRight(p)
    /\ codes' = [codes EXCEPT ![stored[p].code].admitted =
                   @ + (IF registered = (p = "login") THEN 1 ELSE 0)]
    /\ registered' = (registered \/ p = "register")
    /\ UNCHANGED <<sending, coolUntil, counters, time>>

KeysAfterWrong(p) ==
    IF AttemptsAfter(p) >= VerifyAttempts
    THEN stored' = [stored EXCEPT ![p] = NoCode] /\ attempts' = [attempts EXCEPT ![p] = NoKey]
    ELSE /\ \E until \in AttemptExpiries(p) :
              attempts' = [attempts EXCEPT ![p] = [n |-> AttemptsAfter(p), until |-> until]]
         /\ UNCHANGED stored

AnswerWrong(p) ==
    /\ KeyLives(stored[p])
    /\ KeysAfterWrong(p)
    /\ codes' = [codes EXCEPT ![stored[p].code].wrong = @ + 1]
    /\ UNCHANGED <<sending, coolUntil, counters, registered, time>>

TimeGoesOn ==
    /\ time < MaxTime
    /\ time' = time + 1
    /\ UNCHANGED <<codes, sending, coolUntil, counters, stored, attempts, registered>>

-----------------------------------------------------------------------------

SmsInit ==
    /\ codes = <<>>
    /\ sending = [s \in Senders |-> NotSending]
    /\ coolUntil = [p \in Purposes |-> 0]
    /\ counters = [w \in Windows |-> NoKey]
    /\ stored = [p \in Purposes |-> NoCode]
    /\ attempts = [p \in Purposes |-> NoKey]
    /\ registered \in BOOLEAN
    /\ time = 0

SmsStep(senders, purposes) ==
    \/ \E s \in senders, p \in purposes : AskForCode(s, p)
    \/ \E s \in senders, ok \in BOOLEAN : SendCode(s, ok) \/ SaveCode(s, ok)
    \/ \E p \in purposes : AnswerRight(p) \/ AnswerWrong(p)
    \/ TimeGoesOn

SmsNext == SmsStep(Senders, Purposes)

SmsSpec == SmsInit /\ [][SmsNext]_smsVars

-----------------------------------------------------------------------------
(* What must hold *)

SmsTypeOK ==
    /\ \A c \in DOMAIN codes : codes[c].purpose \in Purposes /\ codes[c].at \in 0..time
    /\ \A p \in Purposes : stored[p].code \in {0} \cup DOMAIN codes
    /\ \A w \in Windows : counters[w].n \in 0..w.max
    /\ \A p \in Purposes : attempts[p].n \in 0..(VerifyAttempts - 1)

\* The counters start a window at its first message, so no window of their length, wherever
\* it is laid, has more than twice the limit (reserveSMSCode).
SendsAreLimited ==
    \A w \in Windows, t \in 0..time :
        Cardinality({c \in DOMAIN codes : codes[c].at \in (t - w.length + 1)..t}) <= 2 * w.max

\* A code admits once (the DEL of verifySMSCode).
CodesAdmitOnce == \A c \in DOMAIN codes : codes[c].admitted <= 1

\* The attempts are counted for the phone and not for the code, and expire with the code
\* they began with: a code that is still good was missed fewer than twice the limit.
CodesSurviveFewGuesses ==
    \A p \in Purposes :
        KeyLives(stored[p]) => codes[stored[p].code].wrong <= 2 * (VerifyAttempts - 1)

\* The code that is accepted is the newest one that was saved, unless it had been on its
\* way for a whole cooldown: only a slow operator brings an old code back.
StoredIsLatest ==
    \A p \in Purposes : KeyLives(stored[p]) =>
        LET c == stored[p].code IN
        \/ codes[c].saved - codes[c].at >= Cooldown
        \/ \A d \in (c + 1)..Len(codes) : codes[d].purpose = p => codes[d].saved = NotSaved

\* Together, what makes codes safe: they are sent no faster than the limits say, admit once,
\* and survive a few guesses only; the code that is kept is the one sent last.
CodesAreSafe ==
    SmsTypeOK /\ SendsAreLimited /\ CodesAdmitOnce /\ CodesSurviveFewGuesses /\ StoredIsLatest

=============================================================================
