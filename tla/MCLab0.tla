-------------------------------- MODULE MCLab0 --------------------------------
(***************************************************************************)
(* Lab0 for TLC: two files of up to two bytes, and the errors EINTR (4)    *)
(* and EIO (5).                                                            *)
(***************************************************************************)
EXTENDS Lab0

MCNames == {"f", "g"}
MCBytes == {"a", "b"}
MCContents == {<<>>, <<"a">>, <<"a", "b">>}
MCErrnos == {4, 5}
=============================================================================
