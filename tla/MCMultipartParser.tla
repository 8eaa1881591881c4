-------------------------- MODULE MCMultipartParser --------------------------
(***************************************************************************)
(* A small instance of MultipartParser: a boundary of two bytes, parts     *)
(* that are empty, short, longer than a delimiter, or have in them what a  *)
(* delimiter begins with, and every way to divide the body into reads.     *)
(***************************************************************************)
EXTENDS MultipartParser

MCBytes == {"CR", "LF", "-", "h", "ff", "b", "x", "y"}
MCBoundary == <<"-", "b">>
Contents ==
    {<<>>, <<"x">>, <<"CR", "LF", "-">>, <<"x", "CR", "LF", "x", "x", "y", "x">>}
MCForms == {<<c>> : c \in Contents} \union    \* an image and a label
           {<<c, <<"x", "y">>>> : c \in Contents}
=============================================================================
