---------------------------- MODULE MCHttpClient ----------------------------
(***************************************************************************)
(* Model checking of HttpClient.                                           *)
(***************************************************************************)
EXTENDS HttpClient

(* All methods but deleteAllScenes, which blocks itself, and three whose   *)
(* programs are those of getVersion, and the end of download and uploadFile*)
MostOps == (DOMAIN Program \cup Rebuilding) \ {"deleteAllScenes", "get", "getInto", "postForm"}

(* What the application must not overlap with other calls.                 *)
MustBeSolo == {"listFiles", "setProxy", "setUnixEndpoint", "setUserAgent", "putJSON", "putSTL"}
=============================================================================
