---------------------------- MODULE MCConnection ----------------------------
(* Connection with frames of every kind, some of which contain a line end or
   look like the beginning of another frame. *)
EXTENDS Connection

TestFrames == {
    Simple(<<"x">>), Integer(10), Null, Bulk(<<"cr", "lf">>), Bulk(<<>>),
    Array(<<Error(<<>>), Bulk(<<"$">>)>>) }

FewFrames == { Simple(<<>>), Null }
=============================================================================
