-------------------------- MODULE CredentialVault --------------------------
(***************************************************************************)
(* What the wallet promises about the credentials it stores, with no       *)
(* mention of keys, backups or power: a field has a value, the user        *)
(* replaces it in one step, and nothing else changes it, except that the   *)
(* vault may forget some credentials altogether, and then says which.      *)
(***************************************************************************)
CONSTANTS
  Creds,    \* the credentials stored
  Parts,    \* the fields of a credential
  Contents, \* what a field can hold
  Unknown   \* what is left of a field of a forgotten credential

VARIABLES
  store,    \* the contents of every field
  forgotten \* the credentials given up

vars == <<store, forgotten>>

Init ==
  /\ store \in [Creds -> [Parts -> Contents]]
  /\ forgotten = {}

Edit(c, p, v) ==
  /\ c \notin forgotten
  /\ store' = [store EXCEPT ![c][p] = v]
  /\ UNCHANGED forgotten

Forget(S) ==
  /\ forgotten' = forgotten \cup S
  /\ store' = [c \in Creds |-> IF c \in S THEN [p \in Parts |-> Unknown] ELSE store[c]]

Next ==
  \/ \E c \in Creds, p \in Parts, v \in Contents : Edit(c, p, v)
  \/ \E S \in SUBSET Creds : Forget(S)

Spec == Init /\ [][Next]_vars
=============================================================================
