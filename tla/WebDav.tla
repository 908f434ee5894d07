------------------------------- MODULE WebDav -------------------------------
(***************************************************************************)
(* Uploads to the network file system of the controller                    *)
(* (src/src/controllerclientimpl.cpp).  An upload is a sequence of         *)
(* requests, any of which may be refused or lost, made by several clients  *)
(* at once; the application repeats a call that has thrown.                *)
(*                                                                         *)
(* A name or a path is a sequence of characters, of which only "/" is      *)
(* special; EscapeString is one-to-one and writes "/" as "%2F".  A URI     *)
(* below _basewebdavuri is what follows that prefix; the server takes it   *)
(* apart at its slashes.  libcurl follows redirections                     *)
(* (CURLOPT_FOLLOWLOCATION): the status the program sees is the last one.  *)
(***************************************************************************)
EXTENDS Naturals, Sequences, FiniteSets, SequencesExt

CONSTANTS
    Clients,      \* ControllerClient objects, each makes one call
    Symbols,      \* the characters of names and paths, "%2F", and "unused" for a name
    Jobs,         \* the calls: records of Job
    LocalDirs,    \* the local directory: directories in it, the directory itself is <<>>
    LocalFiles,   \*   and files in it, all as sequences of names
    Existing,     \* how the server may answer MKCOL of a directory that exists
    AtLocation,   \* and how it does at the location it has redirected MKCOL to
    MaxFaults     \* bound on the number of failures

SyncKinds == {"syncFile", "syncTree", "syncProject", "syncBare"}
Kinds == SyncKinds \cup {"file", "directory", "deleteFile", "deleteDirectory"}

(* form: "mujin" for mujin:/path, "url" for _basewebdavuri followed by the *)
(* path, "other" for any other URI.                                        *)
Job == [kind : Kinds, form : {"mujin", "url", "other"}, path : Seq(Symbols)]

(* "redirect" is a 301 that says where, "301" one that does not.            *)
Codes == {"200", "201", "301", "403", "405", "409"}

ASSUME WebDavAssumption ==
    /\ {"/", "%2F", "c", "p", "s", "unused"} \subseteq Symbols
    /\ Jobs \subseteq Job
    /\ Existing \subseteq Codes \cup {"redirect"} /\ Existing # {}
    /\ AtLocation \subseteq Codes /\ AtLocation # {}
    /\ MaxFaults \in Nat
    /\ IsFiniteSet(LocalDirs) /\ IsFiniteSet(LocalFiles)
    /\ LocalDirs \cup LocalFiles \subseteq Seq(Symbols \ {"/"}) /\ <<>> \in LocalDirs \ LocalFiles
    /\ LocalDirs \cap LocalFiles = {}
    /\ \A e \in LocalDirs \cup LocalFiles : e # <<>> => Front(e) \in LocalDirs

-----------------------------------------------------------------------------
(* Paths                                                                   *)

Escape(s) == [i \in DOMAIN s |-> IF s[i] = "/" THEN "%2F" ELSE s[i]]

(* Mutant: the second loop cuts where the first one does not.              *)
CutAlways(s, state, i) ==
    IF s[i] # "/" THEN state
    ELSE [start |-> i + 1, names |-> Append(state.names, Escape(SubSeq(s, state.start, i - 1)))]

(* A slash ends a name.  When the name is empty, startindex stays, so that *)
(* the slash becomes part of the next name.                                *)
Cut(s, state, i) ==
    IF s[i] # "/" \/ state.start = i THEN state
    ELSE [start |-> i + 1, names |-> Append(state.names, Escape(SubSeq(s, state.start, i - 1)))]

(* The names _EnsureWebDAVDirectories collects in listCreateDirs.          *)
NamesOf(s) ==
    LET end == FoldLeftDomain(LAMBDA state, i : Cut(s, state, i), [start |-> 1, names |-> <<>>], s)
    IN IF end.start = Len(s) + 1 THEN end.names
       ELSE Append(end.names, Escape(SubSeq(s, end.start, Len(s))))

(* _EncodeWithoutSeparator does the same to its own startindex and copies  *)
(* every slash.                                                            *)
Copy(s, state, i) ==
    IF s[i] # "/" THEN state
    ELSE IF state.start = i THEN [state EXCEPT !.out = Append(@, "/")]
    ELSE [start |-> i + 1,
          out   |-> state.out \o Escape(SubSeq(s, state.start, i - 1)) \o <<"/">>]

EncodeWithoutSeparator(s) ==
    LET end == FoldLeftDomain(LAMBDA state, i : Copy(s, state, i), [start |-> 1, out |-> <<>>], s)
    IN end.out \o Escape(SubSeq(s, end.start, Len(s)))

(* Of a URI, without _basewebdavuri, which ends in a slash itself.         *)
EndsInSlash(uri) == uri = <<>> \/ Last(uri) = "/"

(* Mutant: no slash is added.                                              *)
WithSlashUnchanged(uri) == uri

WithSlash(uri) == IF EndsInSlash(uri) THEN uri ELSE Append(uri, "/")

WithoutSlash(uri) == IF uri = <<>> THEN uri ELSE Front(uri)

(* The names between the slashes of s, without empty ones: a slash closes  *)
(* the name being read, the next character that is none opens another.     *)
Read(seen, char) ==
    IF char = "/" THEN [seen EXCEPT !.open = FALSE]
    ELSE IF seen.open THEN [seen EXCEPT !.names[Len(seen.names)] = Append(@, char)]
    ELSE [names |-> Append(seen.names, <<char>>), open |-> TRUE]

Segments(s) == FoldLeft(Read, [names |-> <<>>, open |-> FALSE], s).names

(* No empty name but for a slash at the end.                               *)
Plain(s) == \A i \in DOMAIN s : s[i] = "/" => i > 1 /\ s[i - 1] # "/"

-----------------------------------------------------------------------------
(* What a call is going to do                                              *)

(* "at" is the URI as the server takes it apart, "from" a local directory. *)
Item(what, at, from) == [do |-> what, at |-> at, from |-> from]

MkCol(uri)  == Item("mkcol", Segments(uri), <<>>)
Tree(uri)   == Item("tree", Segments(uri), <<>>)

(* The form of an upload to the endpoint itself names the file "unused".   *)
Unused == <<"unused">>

File(uri) == Item("file", IF uri = <<>> THEN <<Unused>> ELSE Segments(uri), <<>>)

(* Mutant: what follows _basewebdavuri is taken one character too late.    *)
DeleteShifted(uri) == Item("delete", Segments(IF uri = <<>> THEN uri ELSE Tail(uri)), <<>>)

Delete(uri) == Item("delete", Segments(uri), <<>>)

Joined(names) ==   \* totaluri
    FoldLeftDomain(LAMBDA uri, i : IF i = 1 THEN names[i] ELSE uri \o <<"/">> \o names[i],
                   <<>>, names)

EnsureWebDAVDirectories(s) ==
    LET names == NamesOf(s)
    IN [i \in DOMAIN names |-> MkCol(Joined(SubSeq(names, 1, i)))]

Encoded(job) == IF job.form = "mujin" THEN EncodeWithoutSeparator(job.path) ELSE job.path

(* SyncUpload: the directory of an rttoolbox or cecrobodiaxml scene ends   *)
(* in a separator, like the URI, and is MKCOLed once more (syncTree), but  *)
(* when the name of the source has no directory nothing is uploaded        *)
(* (syncBare); the project "p" of a wincaps scene goes beside its file "s".*)
SyncUpload(job) ==
    LET base == WithSlash(Encoded(job)) IN
    (IF job.form = "mujin" THEN EnsureWebDAVDirectories(job.path) ELSE <<>>) \o
    (CASE job.kind = "syncFile"    -> <<File(Append(base, "s"))>>
       [] job.kind = "syncTree"    -> <<Tree(WithoutSlash(base))>>
       [] job.kind = "syncProject" -> <<Tree(Append(base, "p")), File(Append(base, "s"))>>
       [] job.kind = "syncBare"    -> <<>>)

(* _PrepareDestinationURI with bEnsurePath = false in all of its calls.    *)
Plan(job) ==
    LET uri == Encoded(job) IN
    CASE job.kind \in SyncKinds -> SyncUpload(job)
      [] job.kind = "file"      -> <<File(uri)>>
      [] job.kind = "directory" -> <<Tree(IF EndsInSlash(uri) THEN Append(uri, "c") ELSE uri)>>
      [] OTHER                  -> <<Delete(uri)>>

(* The entries of a local directory, in the order of the iterator.         *)
Entries(dir) == {e \in LocalDirs \cup LocalFiles : e # <<>> /\ Front(e) = dir}

Listings == [dir \in LocalDirs |-> SetToSeqs(Entries(dir))]

(* Mutant: the name of a directory is left out of its URI.                 *)
UploadBeside(at, e) ==
    Item(IF e \in LocalDirs THEN "tree" ELSE "file",
         IF e \in LocalDirs THEN at ELSE Append(at, <<Last(e)>>), e)

Upload(at, e) ==
    Item(IF e \in LocalDirs THEN "tree" ELSE "file", Append(at, <<Last(e)>>), e)

Contents(item) ==
    {[i \in DOMAIN s |-> Upload(item.at, s[i])] : s \in Listings[item.from]}

-----------------------------------------------------------------------------
(* Where the things of a call belong, said without the code's loops: below *)
(* the names of its path.  A path with empty names has no meaning that the *)
(* documentation states; for it, what the encoded path means; and a file   *)
(* without any name is called as the form calls it.                        *)
Meant(j) == IF Plain(j.path) THEN j.path ELSE Encoded(j)

CopiedTo(p) == {p \o [i \in DOMAIN e |-> <<e[i]>>] : e \in LocalDirs \cup LocalFiles}

Things(j) ==
    LET p == Segments(Meant(j)) IN
    CASE j.kind = "syncFile"    -> {Append(p, <<"s">>)}
      [] j.kind \in {"syncTree", "syncBare"} -> CopiedTo(p)
      [] j.kind = "syncProject" -> CopiedTo(Append(p, <<"p">>)) \cup {Append(p, <<"s">>)}
      [] j.kind = "file"        -> {IF j.path = <<>> THEN <<Unused>> ELSE p}
      [] j.kind = "directory"   -> CopiedTo(IF EndsInSlash(Meant(j)) THEN Append(p, <<"c">>) ELSE p)
      [] OTHER                  -> {}

(* What a call is meant to delete.                                         *)
Targets(j) ==
    IF j.kind \in {"deleteFile", "deleteDirectory"} THEN {Segments(Meant(j))} ELSE {}

(* The calls, each with what it does, what it should leave and delete.     *)
CallOf(j) ==
    [kind |-> j.kind, form |-> j.form, plan |-> Plan(j), things |-> Things(j), targets |-> Targets(j)]

Calls == {CallOf(j) : j \in Jobs}

-----------------------------------------------------------------------------
VARIABLES
    dirs, files,  \* the controller's file system: sequences of names
    job,          \* the call of each client
    status,       \* idle, busy, done or thrown
    work,         \* what is left of it
    redirected,   \* the clients whose MKCOL is asked again at another location
    refusal,      \* the answer that made it throw, or "none"
    removed,      \* whether anything was ever deleted
    faults        \* number of failures so far

vars == <<dirs, files, job, status, work, redirected, refusal, removed, faults>>

TypeOK ==
    /\ dirs \subseteq Seq(Seq(Symbols)) /\ files \subseteq Seq(Seq(Symbols))
    /\ \A c \in Clients : job[c].kind \in Kinds /\ job[c].things \subseteq Seq(Seq(Symbols))
    /\ status \in [Clients -> {"idle", "busy", "done", "thrown"}]
    /\ \A c \in Clients : \A i \in DOMAIN work[c] :
          work[c][i].do \in {"mkcol", "tree", "file", "delete"} /\ work[c][i].from \in LocalDirs \cup LocalFiles
    /\ redirected \subseteq Clients /\ refusal \in [Clients -> Codes \cup {"none"}]
    /\ removed \in BOOLEAN /\ faults \in 0 .. MaxFaults

Init ==
    /\ dirs = {<<>>} /\ files = {}
    /\ job \in [Clients -> Calls]
    /\ status = [c \in Clients |-> "idle"] /\ work = [c \in Clients |-> <<>>]
    /\ redirected = {} /\ refusal = [c \in Clients |-> "none"] /\ removed = FALSE /\ faults = 0

-----------------------------------------------------------------------------
(* The server (external)                                                   *)

Here(c)    == Head(work[c]).at
Outside(c) == job[c].form = "other"

Below(p, q) == IsPrefix(p, q)

Parent(p) == IF p = <<>> THEN <<>> ELSE Front(p)

MkColAnswers(c) ==
    IF Outside(c) THEN Codes
    ELSE IF Here(c) \in dirs THEN (IF c \in redirected THEN AtLocation ELSE Existing)
    ELSE IF Here(c) \in files THEN {"405"}
    ELSE IF Parent(Here(c)) \notin dirs THEN {"409"} ELSE {"201"}

MkColDone(c, code) == IF code = "201" /\ ~Outside(c) THEN dirs \cup {Here(c)} ELSE dirs

(* The endpoint fileupload makes missing directories or refuses.           *)
Above(p) == {SubSeq(p, 1, n) : n \in 0 .. Len(p) - 1}

FileMade(c) ==
    /\ ~Outside(c) /\ Here(c) \notin dirs /\ Above(Here(c)) \cap files = {}
    /\ files' = files \cup {Here(c)} /\ dirs' = dirs \cup Above(Here(c))
    /\ UNCHANGED removed

DirectoryDeleted(c) ==
    /\ ~Outside(c) /\ Here(c) \in dirs \ {<<>>}
    /\ dirs' = {p \in dirs : ~Below(Here(c), p)}
    /\ files' = {p \in files : ~Below(Here(c), p)}
    /\ removed' = TRUE

FileDeleted(c) ==
    /\ ~Outside(c) /\ Here(c) \in files
    /\ files' = files \ {Here(c)} /\ removed' = TRUE /\ UNCHANGED dirs

-----------------------------------------------------------------------------
(* Steps of a call                                                         *)

Doing(c, what) == status[c] = "busy" /\ work[c] # <<>> /\ Head(work[c]).do = what

Deletes(c, kind) == Doing(c, "delete") /\ job[c].kind = kind

Begin(c) ==
    /\ status[c] \in {"idle", "thrown"}
    /\ status' = [status EXCEPT ![c] = "busy"]
    /\ work' = [work EXCEPT ![c] = job[c].plan]
    /\ refusal' = [refusal EXCEPT ![c] = "none"]
    /\ UNCHANGED <<dirs, files, job, redirected, removed, faults>>

Throw(c, code) ==
    /\ status' = [status EXCEPT ![c] = "thrown"]
    /\ work' = [work EXCEPT ![c] = <<>>]
    /\ redirected' = redirected \ {c}
    /\ refusal' = [refusal EXCEPT ![c] = code]

Continue(c, items) ==
    /\ work' = [work EXCEPT ![c] = items \o Tail(@)]
    /\ redirected' = redirected \ {c}
    /\ UNCHANGED <<status, refusal>>

(* Mutant: a directory that exists is an error.                            *)
AcceptsCreatedOnly(code) == code = "201"

Accepts(code) == code \in {"201", "301"}

MakeDirectory(c) ==
    /\ Doing(c, "mkcol") \/ Doing(c, "tree")
    /\ \E code \in MkColAnswers(c) \ {"redirect"} :
          /\ dirs' = MkColDone(c, code)
          /\ IF ~Accepts(code) THEN Throw(c, code)
             ELSE IF Doing(c, "mkcol") THEN Continue(c, <<>>)
             ELSE \E items \in Contents(Head(work[c])) : Continue(c, items)
    /\ UNCHANGED <<files, job, removed, faults>>

(* libcurl asks again where the answer says; by then the directory may be  *)
(* gone.                                                                   *)
FollowRedirect(c) ==
    /\ Doing(c, "mkcol") \/ Doing(c, "tree")
    /\ "redirect" \in MkColAnswers(c)
    /\ redirected' = redirected \cup {c}
    /\ UNCHANGED <<dirs, files, job, status, work, refusal, removed, faults>>

(* A file is put only below the webdav endpoint.                           *)
PutFile(c) ==
    /\ Doing(c, "file") /\ FileMade(c)
    /\ Continue(c, <<>>)
    /\ UNCHANGED <<job, faults>>

(* A form without a file name may be refused too.                          *)
PutRefused(c) ==
    /\ Doing(c, "file") /\ ~Outside(c)
    /\ \/ Parent(Here(c)) \notin dirs /\ Throw(c, "409")
       \/ Here(c) \in dirs /\ Throw(c, "405")
       \/ job[c].kind = "file" /\ Here(c) = <<Unused>> /\ Throw(c, "403")
    /\ UNCHANGED <<dirs, files, job, removed, faults>>

Fault == faults < MaxFaults /\ faults' = faults + 1

(* The file cannot be read, or its URI is not below the endpoint.          *)
FileFails(c) ==
    /\ Doing(c, "file")
    /\ IF Outside(c) THEN UNCHANGED faults ELSE Fault
    /\ Throw(c, "none")
    /\ UNCHANGED <<dirs, files, job, removed>>

(* The connection fails or times out, after the server has done the        *)
(* request or before.                                                      *)
RequestLost(c) ==
    /\ status[c] = "busy" /\ work[c] # <<>> /\ Fault
    /\ \/ UNCHANGED <<dirs, files, removed>>
       \/ /\ Doing(c, "mkcol") \/ Doing(c, "tree")
          /\ \E code \in MkColAnswers(c) : dirs' = MkColDone(c, code)
          /\ UNCHANGED <<files, removed>>
       \/ Doing(c, "file") /\ FileMade(c)
       \/ Deletes(c, "deleteDirectory") /\ DirectoryDeleted(c)
       \/ Deletes(c, "deleteFile") /\ FileDeleted(c)
    /\ Throw(c, "none")
    /\ UNCHANGED job

(* DeleteDirectoryOnController does not look at the status; the deletion   *)
(* of a file throws unless it is 200, and of files below the endpoint only.*)
DeleteDirectory(c) ==
    /\ Deletes(c, "deleteDirectory")
    /\ DirectoryDeleted(c) \/ UNCHANGED <<dirs, files, removed>>
    /\ Continue(c, <<>>)
    /\ UNCHANGED <<job, faults>>

DeleteFile(c) ==
    /\ Deletes(c, "deleteFile")
    /\ IF ~Outside(c) /\ Here(c) \in files
       THEN FileDeleted(c) /\ Continue(c, <<>>)
       ELSE Throw(c, IF Outside(c) THEN "none" ELSE "403") /\ UNCHANGED <<dirs, files, removed>>
    /\ UNCHANGED <<job, faults>>

Finish(c) ==
    /\ status[c] = "busy" /\ work[c] = <<>>
    /\ status' = [status EXCEPT ![c] = "done"]
    /\ UNCHANGED <<dirs, files, job, work, redirected, refusal, removed, faults>>

Proceed(c) ==
    \/ MakeDirectory(c) \/ FollowRedirect(c)
    \/ PutFile(c) \/ DeleteDirectory(c) \/ DeleteFile(c) \/ Finish(c)

Next == \E c \in Clients :
    Begin(c) \/ Proceed(c) \/ PutRefused(c) \/ FileFails(c) \/ RequestLost(c)

Spec == Init /\ [][Next]_vars

(* The application repeats a call that has thrown, and the threads go on.  *)
FairSpec == Spec /\ \A c \in Clients : WF_vars(Begin(c)) /\ WF_vars(Proceed(c))

-----------------------------------------------------------------------------
(* A SyncUpload of an rttoolbox or cecrobodiaxml scene whose name has no   *)
(* directory returns although none of the scene has been uploaded.         *)
UploadsNothing(c) == job[c].kind = "syncBare"

(* When any other upload returns, everything of it is on the controller,   *)
(* however often it had to be repeated and whatever others uploaded        *)
(* meanwhile.                                                              *)
SuccessMeansStored ==
    \A c \in Clients : status[c] = "done" /\ ~Outside(c) /\ ~UploadsNothing(c) /\ ~removed
        => job[c].things \subseteq dirs \cup files

(* Uploads leave nothing, complete or cut short, but their own things and  *)
(* the directories these are in; among these things is the file "unused"   *)
(* of an upload whose path is empty, a name no caller has given.           *)
NothingElsewhere ==
    \A p \in dirs \cup files : p # <<>> =>
        \E c \in Clients : ~Outside(c) /\ \E q \in job[c].things : IsPrefix(p, q)

(* SyncUpload makes the directories it needs under the names it then uses: *)
(* the server never misses one, unless something was deleted.              *)
Ensures(c) == job[c].kind \in SyncKinds /\ job[c].form = "mujin"

EnsuredDirectoriesAreUsed ==
    \A c \in Clients : Ensures(c) /\ refusal[c] = "409" => removed

(* A SyncUpload that was cut short succeeds when it is repeated, although  *)
(* part of what it makes exists then, unless a file has the name of one of *)
(* its directories, or the server goes on to refuse MKCOL of directories   *)
(* that exist with another status than 301, be it at once or, as libcurl   *)
(* follows the 301, at the location it names: then no repetition succeeds. *)
Obstructed(c) == \E p \in files : \E q \in job[c].things : IsStrictPrefix(p, q)

Refusals == (Existing \cup AtLocation) \ {"201", "301", "redirect"}

RepeatedSyncUploadSucceeds ==
    \A c \in Clients : Ensures(c) =>
        <>(status[c] = "done" \/ Obstructed(c)) \/ []<>(refusal[c] \in Refusals)

(* The requests of uploads and deletions together implement the tree of    *)
(* module FileStore: nothing is ever there without the directories above   *)
(* it, whatever calls fail on the way, and only what a call names goes.    *)
Wanted == [c \in Clients |-> IF Outside(c) THEN {} ELSE job[c].things]

Promised == [c \in Clients |-> IF UploadsNothing(c) THEN {} ELSE Wanted[c]]

Unwanted == [c \in Clients |-> IF Outside(c) THEN {} ELSE job[c].targets]

FS == INSTANCE FileStore WITH
        Paths <- Seq(Seq(Symbols)), stored <- dirs \cup files,
        wanted <- Wanted, promised <- Promised, unwanted <- Unwanted

ImplementsFileStore == FS!StoreSpec
=============================================================================
