----------------------------- MODULE MailIntake -----------------------------
(***************************************************************************)
(* What the module promises to those who ask it to send a mail.  A request *)
(* stores at most one mail, its own; no two stored mails share a key, and  *)
(* a request that arrives after its key is stored stores none.  Whoever is *)
(* answered with a mail gets one that is stored, its own or the one with   *)
(* its key; a refusal (4xx) means that nothing was stored.  Only a request *)
(* that fails (500) or is lost (its host stopped) does not know.           *)
(* MailEnqueue implements this specification.                              *)
(***************************************************************************)
CONSTANTS Requests, Keys, NoKey, None

VARIABLES phase,   \* "new", "open", or how the request ended
          key,     \* the key it came with
          stored,  \* the mails, each named by the request it is from
          answer,  \* the mail a request was answered with
          repeats  \* requests whose key was stored when they arrived

intakeVars == <<phase, key, stored, answer, repeats>>

WithKey(k) == {m \in stored : k # NoKey /\ key[m] = k}

IntakeInit ==
    /\ phase = [r \in Requests |-> "new"]
    /\ key = [r \in Requests |-> NoKey]
    /\ stored = {}
    /\ answer = [r \in Requests |-> None]
    /\ repeats = {}

\* A request that is not complete is refused as it arrives.
Arrive(r) ==
    /\ phase[r] = "new"
    /\ \E k \in Keys \cup {NoKey} :
          /\ key' = [key EXCEPT ![r] = k]
          /\ repeats' = IF WithKey(k) # {} THEN repeats \cup {r} ELSE repeats
    /\ \E p \in {"open", "refused"} : phase' = [phase EXCEPT ![r] = p]
    /\ UNCHANGED <<stored, answer>>

\* The mail is stored; the answer may be given at once.
Store(r) ==
    /\ phase[r] = "open"
    /\ r \notin stored /\ r \notin repeats /\ WithKey(key[r]) = {}
    /\ stored' = stored \cup {r}
    /\ \/ UNCHANGED <<phase, answer>>
       \/ phase' = [phase EXCEPT ![r] = "answered"] /\ answer' = [answer EXCEPT ![r] = r]
    /\ UNCHANGED <<key, repeats>>

\* Its own mail, or the one with its key if it has none of its own.
Give(r, m) ==
    /\ phase[r] = "open"
    /\ m \in IF r \in stored THEN {r} ELSE WithKey(key[r])
    /\ phase' = [phase EXCEPT ![r] = "answered"]
    /\ answer' = [answer EXCEPT ![r] = m]
    /\ UNCHANGED <<key, stored, repeats>>

Refuse(r) ==
    /\ phase[r] = "open"
    /\ r \notin stored
    /\ phase' = [phase EXCEPT ![r] = "refused"]
    /\ UNCHANGED <<key, stored, answer, repeats>>

\* The client is told of an error, whether or not its mail was just stored.
Fail(r) ==
    /\ phase[r] = "open"
    /\ r \notin stored
    /\ \/ UNCHANGED stored
       \/ /\ r \notin repeats /\ WithKey(key[r]) = {}
          /\ stored' = stored \cup {r}
    /\ phase' = [phase EXCEPT ![r] = "failed"]
    /\ UNCHANGED <<key, answer, repeats>>

\* A host stops: its requests end without an answer, stored or not.
Lose(S) ==
    /\ S # {}
    /\ \A r \in S : phase[r] = "open"
    /\ phase' = [r \in Requests |-> IF r \in S THEN "lost" ELSE phase[r]]
    /\ UNCHANGED <<key, stored, answer, repeats>>

IntakeNext ==
    \/ \E r \in Requests :
          Arrive(r) \/ Store(r) \/ Refuse(r) \/ Fail(r) \/ \E m \in Requests : Give(r, m)
    \/ \E S \in SUBSET Requests : Lose(S)

IntakeSpec == IntakeInit /\ [][IntakeNext]_intakeVars
=============================================================================
