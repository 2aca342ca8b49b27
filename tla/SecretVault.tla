----------------------------- MODULE SecretVault -----------------------------
(***************************************************************************)
(* What the credential store promises its callers, without keys, files and *)
(* locks: a map from names to secrets.  A write takes effect at most once  *)
(* and changes one name, a removal changes one name, a restore brings back *)
(* what some backup has kept - and nothing else ever changes a secret.     *)
(***************************************************************************)
CONSTANTS
  Names,    \* names of the secrets
  Writes,   \* write requests; each writes a secret of its own
  Absent    \* the value of a name that is not set

VARIABLES
  content,  \* secret per name
  taken,    \* writes that have taken effect
  kept      \* contents that a backup holds

vars == <<content, taken, kept>>

Put(w, n) ==
  /\ w \notin taken
  /\ taken' = taken \cup {w}
  /\ content' = [content EXCEPT ![n] = w]
  /\ UNCHANGED kept

Remove(n) ==
  /\ content' = [content EXCEPT ![n] = Absent]
  /\ UNCHANGED <<taken, kept>>

Keep ==
  /\ kept' = kept \cup {content}
  /\ UNCHANGED <<content, taken>>

Recall ==
  /\ content' \in kept
  /\ UNCHANGED <<taken, kept>>

Init ==
  /\ taken = {}
  /\ \A c \in kept \cup {content}, n \in Names : c[n] \notin Writes

Next ==
  \/ \E n \in Names : Remove(n) \/ \E w \in Writes : Put(w, n)
  \/ Keep
  \/ Recall

Spec == Init /\ [][Next]_vars
=============================================================================
