----------------------------- MODULE Identities -----------------------------
(***************************************************************************)
(* Who the user is: the identity contexts of the registrar                 *)
(* (contexts/IdentityContext.tsx, lib/identity.ts, login-modal.tsx) and of *)
(* the frontend (contexts/IdentityContext.tsx, lib/identity.ts,            *)
(* identity-manager.tsx).                                                  *)
(*                                                                         *)
(* A secret key, its nsec and its public key are one model value.  Own are *)
(* the keys a user brings along, as an nsec or in the browser's extension; *)
(* the others are generated, each once.  Storage is that of one browser,   *)
(* with one tab.                                                           *)
(***************************************************************************)
EXTENDS Naturals

CONSTANTS
    Keys,
    Own,   \* the keys users bring
    None   \* no key

ASSUME IdentityAssumption == Own \subseteq Keys /\ None \notin Keys

VARIABLES
    accounts,  \* the registrar's saved accounts
    last,      \* its last account
    stored,    \* its ephemeral key; the frontend's only key
    born,      \* keys generated so far
    session,   \* who is signed in, and how
    asking     \* the extension has been asked for its key

idStorage == <<accounts, last, stored>>
idVars == <<idStorage, born, session, asking>>

NoSession == [key |-> None, how |-> "none"]
Signed(k, how) == [key |-> k, how |-> how]

IdTypeOK ==
    /\ accounts \subseteq Keys /\ last \in Keys \cup {None} /\ stored \in Keys \cup {None}
    /\ born \subseteq Keys \ Own /\ asking \in BOOLEAN
    /\ session \in {NoSession} \cup [key: Keys, how: {"extension", "nsec", "ephemeral", "stored"}]

----------------------------------------------------------------------------
(* The registrar. *)

\* What the registrar's context finds when it is mounted: the ephemeral key is
\* taken even where the last account has been found.
restored ==
    IF stored # None THEN Signed(stored, "ephemeral")
    ELSE IF last \in accounts THEN Signed(last, "nsec")
    ELSE NoSession

SignsIn(k, how) == last' = k /\ session' = Signed(k, how)

loginWithExtension ==
    /\ session = NoSession /\ ~asking /\ asking' = TRUE
    /\ UNCHANGED <<idStorage, born, session>>

\* The extension answers, whoever is signed in by then, or refuses.
ExtensionAnswers ==
    /\ asking /\ asking' = FALSE
    /\ \/ \E k \in Own : SignsIn(k, "extension")
       \/ UNCHANGED <<last, session>>
    /\ UNCHANGED <<accounts, stored, born>>

\* The Enter key signs in while the extension is being waited for.
mutant_loginWithNsec(k, remember) ==
    /\ session = NoSession /\ k \in Own \cup born
    /\ accounts' = IF remember THEN accounts \cup {k} ELSE accounts
    /\ session' = Signed(k, "nsec")
    /\ UNCHANGED <<last, stored, born, asking>>

loginWithNsec(k, remember) ==
    /\ session = NoSession /\ k \in Own \cup born
    /\ accounts' = IF remember THEN accounts \cup {k} ELSE accounts
    /\ SignsIn(k, "nsec")
    /\ UNCHANGED <<stored, born, asking>>

\* A new key takes the place of the stored one.
generateEphemeral(k) ==
    /\ session = NoSession /\ k \in Keys \ (Own \cup born)
    /\ born' = born \cup {k} /\ stored' = k
    /\ SignsIn(k, "ephemeral")
    /\ UNCHANGED <<accounts, asking>>

loginWithSavedAccount(k) ==
    /\ session = NoSession /\ k \in accounts /\ ~asking
    /\ SignsIn(k, "nsec")
    /\ UNCHANGED <<accounts, stored, born, asking>>

\* Signing out leaves the ephemeral key where it is.
logout ==
    /\ session # NoSession /\ session' = NoSession /\ last' = None
    /\ UNCHANGED <<accounts, stored, born, asking>>

removeSavedAccount(k) ==
    /\ session = NoSession /\ k \in accounts /\ accounts' = accounts \ {k}
    /\ UNCHANGED <<last, stored, born, session, asking>>

RegistrarIdentity ==
    \/ loginWithExtension \/ ExtensionAnswers \/ logout
    \/ \E k \in Keys : \/ loginWithNsec(k, TRUE) \/ loginWithNsec(k, FALSE)
                       \/ generateEphemeral(k) \/ loginWithSavedAccount(k)
                       \/ removeSavedAccount(k)

RegistrarReloads ==
    /\ session' = restored /\ asking' = FALSE
    /\ UNCHANGED <<idStorage, born>>

----------------------------------------------------------------------------
(* The frontend: one key, made on the first visit and kept until it is     *)
(* replaced.                                                               *)

Keeps(k) == stored' = k /\ session' = Signed(k, "stored")

getOrCreateIdentity ==
    /\ IF stored # None
         THEN Keeps(stored) /\ UNCHANGED born
         ELSE \E k \in Keys \ (Own \cup born) : Keeps(k) /\ born' = born \cup {k}
    /\ UNCHANGED <<accounts, last, asking>>

importIdentity(k) ==
    /\ k \in Own \cup born /\ Keeps(k)
    /\ UNCHANGED <<accounts, last, born, asking>>

resetIdentity(k) ==
    /\ k \in Keys \ (Own \cup born) /\ Keeps(k) /\ born' = born \cup {k}
    /\ UNCHANGED <<accounts, last, asking>>

FrontendIdentity ==
    /\ session # NoSession
    /\ \E k \in Keys : importIdentity(k) \/ resetIdentity(k)

----------------------------------------------------------------------------
\* The storage a browser starts with is empty.
IdInit ==
    /\ accounts = {} /\ last = None /\ stored = None /\ born = {}
    /\ session = NoSession /\ asking = FALSE
=============================================================================
