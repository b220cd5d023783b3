----------------------------- MODULE MCMessages -----------------------------
(***************************************************************************)
(* Small instances of Messages.                                            *)
(***************************************************************************)
EXTENDS Messages, TLC

MCUri    == {<< >>, <<"/", "x">>, <<"T">>, <<"x", SP>>}
MCReason == {<< >>, <<"x">>, <<"x", SP, "x">>, <<"T">>, <<"T", SP, "x">>, <<"x", NL>>,
             <<"x", "x", "x", "x", "x">>}
MCStatus == {0, 204}
MCMethod == {<<"G">>, << >>}
MCHeader == {<<<<"x">>, <<SP, "x", SP>>>>, <<<<"x", ":">>, <<"x">>>>, <<<<"x">>, << >>>>,
             <<<< >>, <<":">>>>, <<<<"x">>, <<"x", CR>>>>, <<<<"E">>, <<"K">>>>,
             <<<<"x">>, [i \in 1 .. 12 |-> "x"]>>}
MCBody   == {<<NL, "x">>, [i \in 1 .. 8 |-> "x"]}

MCWord == {<< >>, <<"T">>, <<"x">>, <<"2">>, <<"2", "2", "2">>}
MCLine == MCWord \cup {Joined(ws) : ws \in UNION {[1 .. n -> MCWord] : n \in 2 .. 4}}
MCIncoming ==
  {line \o eol \o rest :
     line \in MCLine, eol \in {<< >>, <<NL>>, <<CR>>, <<CR, NL>>},
     rest \in {<< >>, <<NL>>, <<CR, NL>>, <<"x">>, <<"x", ":", "x", NL>>, <<"x", NL, NL, NL, "x">>}}

MCPrefix == <<"/">>
MCRequest ==
  {Joined(<<m, u, <<"T">>>>) \o <<NL, NL>> :
     m \in {<< >>, <<"x">>, <<"G">>, <<"G", "x">>} \cup {<<Methods[i]>> : i \in DOMAIN Methods},
     u \in {<< >>, <<"/">>, <<"/", "x">>, <<"x", "/">>}}
MCArriving == MCIncoming \cup MCRequest

MCName == {<< >>, <<"localhost">>, <<"x">>, <<"x", ".req">>, <<".sub">>, <<"x", ":", "1">>}
MCPort == {0, 1, 9, 10, 99, 100, 65533, 65535}

MCPath == UNION {[1 .. n -> {"/", "x"}] : n \in 0 .. 6}
=============================================================================
