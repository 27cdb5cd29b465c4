----------------------------- MODULE UserNames -----------------------------
(* The names that secret_creation_hook.py makes of a user's name, which is a *)
(* sequence of characters.  Objects of Kubernetes and hostnames are told     *)
(* apart by these names alone.                                               *)
EXTENDS SequencesExt

CONSTANT Limit   \* of the 63 characters of an object's name, those after "dask-"

ASSUME LimitAssumption == Limit \in Nat

\* '-%0x' % ord(character), of what isalnum does not accept
Hex == [c \in {"-", ".", "@", "_"} |->
          CASE c = "-" -> <<"2", "d">> [] c = "." -> <<"2", "e">>
            [] c = "@" -> <<"4", "0">> [] c = "_" -> <<"5", "f">>]

EscapeUsername(name) ==
  FlattenSeq([i \in DOMAIN name |->
    IF name[i] \in DOMAIN Hex THEN <<"-">> \o Hex[name[i]] ELSE <<name[i]>>])

UsernameToSecretname(name) == EscapeUsername(name)

\* mutant: a limit for the name without its escapes
DaskNameShort(name) == SubSeq(EscapeUsername(name), 1, Min({Len(name), Limit}))
\* get_dask_params: the name of the service and of the ingress is cut, the
\* hostnames are not
DaskName(name) ==
  LET euser == EscapeUsername(name) IN SubSeq(euser, 1, Min({Len(euser), Limit}))
SchedHostname(name) == EscapeUsername(name)
=============================================================================
