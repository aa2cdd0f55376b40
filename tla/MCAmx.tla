------------------------------- MODULE MCAmx -------------------------------
(* Capability lists and requests for model checking Amx. *)
EXTENDS Amx

\* A listing that offers one capability and one that offers another as well.
TwoLists == {<<"a">>, <<"a", "b">>}

\* Requests that both or only the longer list can serve.
Needs == {{"a"}, {"b"}}
=============================================================================
