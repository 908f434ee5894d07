------------------------------ MODULE MCWebDav ------------------------------
(***************************************************************************)
(* Model checking of WebDav.                                               *)
(***************************************************************************)
EXTENDS WebDav

A == "a"
S == "/"

Letters == {A, S, "%2F", "c", "d", "f", "g", "p", "s", "unused"}

Folder      == {<<>>, <<"d">>}
FolderFiles == {<<"f">>, <<"d", "g">>}

(* No name, one, two, a slash at the end, an empty name at each place.     *)
Paths == {<<>>, <<A>>, <<A, S>>, <<A, S, A>>, <<S, A>>, <<A, S, S, A>>, <<A, S, S>>}

FewPaths == {<<>>, <<A, S, A>>, <<A, S, S, A>>}

AllJobs ==
    [kind : {"syncFile", "syncTree", "file", "directory"}, form : {"mujin"}, path : Paths] \cup
    [kind : {"syncProject", "deleteFile", "deleteDirectory"}, form : {"mujin"}, path : FewPaths] \cup
    [kind : {"syncFile", "syncTree", "file", "deleteFile"}, form : {"url"}, path : {<<A, S, A>>}] \cup
    [kind : {"syncTree", "file", "deleteFile"}, form : {"other"}, path : {<<A, S, A>>}] \cup
    [kind : {"syncBare"}, form : {"mujin", "url"}, path : {<<A, S>>}]

(* MKCOL of a directory that exists is answered by 301, with a location or *)
(* without one; there it is refused.                                       *)
Moved == {"301", "redirect"}

NotAllowed == {"405"}
=============================================================================
