-------------------------------- MODULE Wire --------------------------------
(***************************************************************************)
(* XML-RPC values as vcd and its clients build and decompose them, and the *)
(* numerals that both put into strings.  The XML-RPC library is external.  *)
(*                                                                         *)
(* A value carries its type: a string, an int, a boolean, nil, a structure *)
(* of typed members, or an array.  No program depends on the order of the  *)
(* items of an array it is sent, so an array is a set of items.            *)
(***************************************************************************)
EXTENDS Integers, FiniteSets, TLC

CONSTANTS Numerals,  \* texts that begin with a number: what sscanf reads of them
          Digits     \* those of them that have nothing but digits

S(v) == <<"s", v>>
I(n) == <<"i", n>>
B(n) == <<"b", IF n = 0 THEN 0 ELSE 1>>
Nil == <<"nil", "nil">>
Struct(members) == <<"struct", members>>
Array(items) == <<"array", items>>

(* The empty string stands for what is missing. *)
Blank == ""

(* The members of a structure without their types. *)
Fields(members) == [f \in DOMAIN members |-> members[f][2]]

(* xmlrpc_decompose_value with a format "{s:T,...,*}": every member that   *)
(* the format names is there and has its type; others are ignored.         *)
Decomposes(members, format) ==
    \A f \in DOMAIN format : f \in DOMAIN members /\ members[f][1] = format[f]

-----------------------------------------------------------------------------
(* Numerals.  Many texts are the numeral of one number ("5", "05", "5x"); *)
(* printf writes one of them, which is ToString's, and never nothing.      *)
ASSUME NumeralAssumption ==
    /\ Blank \notin DOMAIN Numerals
    /\ \A s \in DOMAIN Numerals : Numerals[s] \in Int /\ ToString(Numerals[s]) # Blank
    /\ Digits \subseteq DOMAIN Numerals
    /\ \A s \in Digits : Numerals[s] >= 0

str_isdigit(s) == s \in Digits

(* sscanf("%d"): the variable keeps its old value if s is not a numeral. *)
sscanf(s, old) == IF s \in DOMAIN Numerals THEN Numerals[s] ELSE old
=============================================================================
