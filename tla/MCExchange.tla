----------------------------- MODULE MCExchange -----------------------------
(* Two consoles.  The widths are smaller than those of the code, and       *)
(* different from each other as they are there.                            *)
EXTENDS Exchange

MCProcs == {"console1", "console2"}
MCPid == [p \in MCProcs |-> IF p = "console1" THEN 4 ELSE 12]

AX == <<65, 88>>
EAX == <<69, 65, 88>>
MCRegisterNames == <<AX, EAX>>
MCRegisterSizes == <<1, 2>>

Line(op, args) == [op |-> op, args |-> args]

(* A register that is filled, one that is not, a value too long, and an    *)
(* operation that does not exist; a segment; and nothing at all.           *)
Registers ==
  << Line("SET", <<AX, <<49>>>>), Line("SET", <<EAX, <<50>>>>), Line("YIELD", <<>>),
     Line("NOP", <<EAX>>), Line("SET", <<AX, <<51, 51>>>>), Line("EXIT", <<>>) >>
Segment ==
  << Line("SET", <<EAX, <<51, 52>>>>), Line("CREATE_SEGMENT", <<<<49>>, <<49, 54>>>>) >>
MCScripts ==
  [p \in MCProcs |-> IF p = "console1" THEN {Registers} ELSE {Segment}]
MCCuts == {5}
=============================================================================
