---------------------------- MODULE MCWordServer ----------------------------
(***************************************************************************)
(* WordServer on two instances: two descriptors whose connections break    *)
(* and whose lines arrive in pieces, and three descriptors with orderly    *)
(* clients, for the lists.                                                 *)
(***************************************************************************)
EXTENDS WordServer

MCWords == {<< "a" >>}

\* One client's lines, of "a" or empty, come in pieces or two at a time.
MCPieces == 5 :> {<< "a" >>, << EOL >>} @@ 6 :> {<< "C", EOL >>}

\* Each two of the three clients would like the same name.  "C" is no guess,
\* "a" a right one and "b" a wrong one.
MCLines == 5 :> {<< "a", EOL >>, << "C", EOL >>}
        @@ 6 :> {<< "a", EOL >>, << "b", EOL >>}
        @@ 7 :> {<< "b", EOL >>, << "C", EOL >>}
=============================================================================
