---------------------------- MODULE MCXdpReload ----------------------------
(* Commands with many combinations of options, one after the other or
   overlapping, beside xdp_stats. *)
EXTENDS XdpReload, TLC

Loads == {<<"xdp_loader", <<m>> \o s>> :
            m \in {"S", "A"}, s \in {<<>>, <<"F">>, <<"M">>, <<"M", "F">>, <<"U">>}}
Apps == {<<"af_xdp_user", s>> : s \in {<<>>, <<"f">>, <<"S">>, <<"z", "S">>, <<"M", "f">>}}
FirstLessons == {<<"xdp_pass_user", <<>>>>, <<"xdp_pass_user", <<"A", "S", "U">>>>, <<"basic02", <<"S", "N", "F">>>>}

Invocations == Loads \cup Apps \cup FirstLessons
Symmetry == Permutations(Command)
=============================================================================
