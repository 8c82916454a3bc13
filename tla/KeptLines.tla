------------------------------- MODULE KeptLines -------------------------------
(***************************************************************************)
(* Files as sequences of lines.  The managers of authorized_keys and the   *)
(* client config and ssh-keygen rewrite a file by taking over the lines    *)
(* that stay, one by one and in their order.                               *)
(***************************************************************************)
EXTENDS Naturals, Sequences

\* The lines of s at the numbers in at.
KeptAt(s, at) ==
    LET upTo[i \in 0..Len(s)] ==
            IF i = 0 THEN <<>>
            ELSE IF i \in at THEN Append(upTo[i - 1], s[i])
            ELSE upTo[i - 1]
    IN  upTo[Len(s)]

\* The lines of s that are in the set keep.
Kept(s, keep) == KeptAt(s, {i \in DOMAIN s : s[i] \in keep})
================================================================================
