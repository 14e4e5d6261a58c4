---------------------------- MODULE MCPageHistory ----------------------------
(***************************************************************************)
(* Instances of PageHistory for TLC: pages whose names differ after a dot  *)
(* or whose files are in each other's way, in a repository that is the     *)
(* content root or that contains it.                                       *)
(***************************************************************************)
EXTENDS PageHistory

Dotted == << <<"notes">>, <<"v1", "2">> >>
DottedToo == << <<"notes">>, <<"v1", "9">> >>
Plain == << <<"readme">> >>

\* Its file is in a directory of the name of Plain's file.
Below == << <<"readme", "md">>, <<"about">> >>

MCPages == {Dotted, DottedToo, Plain, Below}

AtRoot == <<>>
InContent == << <<"content">> >>

\* A file at the root of the repository, where a page of the same name would
\* be if the root were the content root; and a file no page can have.
RootReadme == {<< <<"readme", "md">> >>}
License == {<< <<"LICENSE">> >>}
=============================================================================
