------------------------------ MODULE MCWorkspace ------------------------------
(***************************************************************************)
(* The instances of Workspace for TLC.                                     *)
(***************************************************************************)
EXTENDS Workspace

K == <<"typed", "k">>
Text(c) == <<"text", c>>

T   == <<"a", ".", "t">>
Enc == <<"a", ".", "enc">>
Dec == <<"a", ".", "dec">>
X   == <<"d", ".", "e", "/", "x">>
Y   == <<"d", ".", "e", "/", "y">>
D   == <<"d", ".", "t">>

Command(verb, name, key) == [verb |-> verb, file |-> name, key |-> key]

MCParts == {".", "/", "a", "t", "d", "e", "x", "y", "enc", "dec"}

MCProcs == {"p", "q", "r"}

Commands ==
  << Command("encode", T, K), Command("encode", Enc, K), Command("encode", Dec, NoKey),
     Command("decode", Enc, K), Command("decode", Dec, K), Command("decode", T, NoKey),
     Command("shred", T, NoKey), Command("shred", Enc, NoKey), Command("shred", Dec, NoKey),
     Command("encode", X, K), Command("encode", Y, K), Command("encode", D, K) >>

Plan(first, second, third) ==
  [p \in MCProcs |-> IF p = "p" THEN first ELSE IF p = "q" THEN second ELSE third]

One == <<Text("x")>>
Two == <<Text("x"), Text("y")>>

Run(text) == [run |-> "earlier", key |-> K, size |-> Len(text), text |-> text]
MCEarlier == {Run(One), Run(Two)}

\* Nothing is encoded yet; something is, and its name may be that of a text.
Plain   == << <<T, Two>>, <<X, One>>, <<Y, One>>, <<D, One>> >>
Encoded == << <<T, One>>, <<Enc, Sealed(Run(Two))>>, <<Dec, Sealed(Run(One))>> >>
Short   == << <<T, One>>, <<Enc, One>> >>

\* Every two commands, and two that delete what a third makes.
Pairs == {Plan(Commands[i], Commands[j], NoCommand) :
            <<i, j>> \in {ij \in (1 .. 12) \X (1 .. 12) : ij[1] <= ij[2]}}
MCScenes == (Pairs \X {Plain, Encoded})
            \cup {<<Plan(Commands[8], Commands[8], Commands[1]), Short>>}

\* One process alone.
MCOwnInput == {<<Plan(c, NoCommand, NoCommand), Encoded>> : c \in {Commands[1], Commands[2]}}
=============================================================================
