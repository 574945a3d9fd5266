------------------------------ MODULE Storage ------------------------------
(***************************************************************************)
(* Objects on the local disk.  A name becomes a key, the key a path; Put   *)
(* truncates the file at that path and copies a stream into it, Get hands  *)
(* the file open to its caller, who reads at leisure, Delete unlinks it.   *)
(* Nothing excludes two calls, and a copy may stop half-way.               *)
(*                                                                         *)
(* A file is an inode, a path designates one or none: what is unlinked     *)
(* stays readable, and writable, to who has it open.                       *)
(***************************************************************************)
EXTENDS Naturals, Sequences, FiniteSets

CONSTANTS
  Keys,      \* the paths SafeKey derives
  Uploads,   \* the calls of Put
  Downloads, \* the calls of Get
  NoFile

VARIABLES
  path,    \* the directory: key -> inode
  inode,   \* the content of each file created, in order
  put,     \* Put: its state, key, inode and the blocks copied
  get      \* Get: its state, inode, the blocks read, and (history) the Puts
           \* that were over with that inode when it was opened

\* History: the Puts whose file another Put opened meanwhile, or since.
VARIABLES disturbed

storageVars == <<path, inode, put, get, disturbed>>

\* An upload is told from the others by its blocks and by how many it has.
Size(u) == IF u = CHOOSE v \in Uploads : TRUE THEN 2 ELSE 1
Content(u) == [i \in 1..Size(u) |-> u]

Starting == [at |-> "starting", key |-> NoFile, file |-> 0, done |-> 0]

StorageInit ==
  /\ path = [k \in Keys |-> NoFile]
  /\ inode = <<>>
  /\ put = [u \in Uploads |-> Starting]
  /\ get = [d \in Downloads |-> 
       [at |-> "starting", file |-> 0, read |-> <<>>, of |-> {}]]
  /\ disturbed = {}

\* Put refuses an object without a name or a content, and a name that
\* designates no file, before anything is touched; or the directory cannot be
\* made, or the file opened.
PutRefused(u) ==
  /\ put[u].at = "starting"
  /\ put' = [put EXCEPT ![u].at = "failed"]
  /\ UNCHANGED <<path, inode, get, disturbed>>

Opened(k) == IF path[k] = NoFile THEN Len(inode) + 1 ELSE path[k]

\* Those with f open, or who put there what is still in it.
OnFile(f) == {v \in Uploads : put[v].file = f /\ put[v].at # "failed"}

Disturbs(u, f) ==
  OnFile(f) \union
  (IF \E v \in OnFile(f) : put[v].at = "copying" THEN {u} ELSE {})

\* Broken on purpose: opened without O_TRUNC.
PutOpen_KeepsTheRest(u, k) ==
  /\ put[u].at = "starting"
  /\ path' = [path EXCEPT ![k] = Opened(k)]
  /\ inode' = IF path[k] = NoFile THEN Append(inode, <<>>) ELSE inode
  /\ put' = [put EXCEPT ![u] =
       [at |-> "copying", key |-> k, file |-> Opened(k), done |-> 0]]
  /\ disturbed' = disturbed \union Disturbs(u, Opened(k))
  /\ UNCHANGED get

\* O_WRONLY|O_CREATE|O_TRUNC, at the final key.
PutOpen(u, k) ==
  /\ put[u].at = "starting"
  /\ path' = [path EXCEPT ![k] = Opened(k)]
  /\ inode' = IF path[k] = NoFile THEN Append(inode, <<>>)
              ELSE [inode EXCEPT ![path[k]] = <<>>]
  /\ put' = [put EXCEPT ![u] =
       [at |-> "copying", key |-> k, file |-> Opened(k), done |-> 0]]
  /\ disturbed' = disturbed \union Disturbs(u, Opened(k))
  /\ UNCHANGED get

\* A block written at offset n: a file truncated meanwhile is filled with holes.
WriteAt(content, n, block) ==
  [i \in 1..(IF Len(content) > n THEN Len(content) ELSE n) |->
     IF i = n THEN block ELSE IF i <= Len(content) THEN content[i] ELSE NoFile]

\* io.Copy, one block at a time.
PutBlock(u) ==
  /\ put[u].at = "copying" /\ put[u].done < Size(u)
  /\ inode' = [inode EXCEPT ![put[u].file] =
       WriteAt(@, put[u].done + 1, Content(u)[put[u].done + 1])]
  /\ put' = [put EXCEPT ![u].done = @ + 1]
  /\ UNCHANGED <<path, get, disturbed>>

\* The stream or the disk fails: the error is returned, what was copied stays.
PutFails(u) ==
  /\ put[u].at = "copying"
  /\ put' = [put EXCEPT ![u].at = "failed"]
  /\ UNCHANGED <<path, inode, get, disturbed>>

\* What Close answers is not looked at: nothing on a local disk is left for it
\* to write, and a Close that fails is not modelled.
PutReturns(u) ==
  /\ put[u].at = "copying" /\ put[u].done = Size(u)
  /\ put' = [put EXCEPT ![u].at = "located"]
  /\ UNCHANGED <<path, inode, get, disturbed>>

\* Get refuses a key outside the store, and one nobody stored.
GetRefused(d) ==
  /\ get[d].at = "starting"
  /\ get' = [get EXCEPT ![d].at = "refused"]
  /\ UNCHANGED <<path, inode, put, disturbed>>

GetOpen(d, k) ==
  /\ get[d].at = "starting" /\ path[k] # NoFile
  /\ get' = [get EXCEPT ![d].at = "reading", ![d].file = path[k],
       ![d].of = {u \in OnFile(path[k]) : put[u].at = "located"}]
  /\ UNCHANGED <<path, inode, put, disturbed>>

\* The caller reads what the file holds at that moment, until its end.
GetBlock(d) ==
  LET content == inode[get[d].file]
      next == Len(get[d].read) + 1
  IN /\ get[d].at = "reading"
     /\ get' = [get EXCEPT ![d] =
          IF next <= Len(content) THEN [@ EXCEPT !.read = Append(get[d].read, content[next])]
          ELSE [@ EXCEPT !.at = "read"]]
     /\ UNCHANGED <<path, inode, put, disturbed>>

\* Delete: an object that is absent is no error.
Delete(k) ==
  /\ path' = [path EXCEPT ![k] = NoFile]
  /\ UNCHANGED <<inode, put, get, disturbed>>

StorageNext ==
  \/ \E u \in Uploads :
       \/ PutRefused(u) \/ PutBlock(u) \/ PutFails(u) \/ PutReturns(u)
       \/ \E k \in Keys : PutOpen(u, k)
  \/ \E d \in Downloads :
       \/ GetRefused(d) \/ GetBlock(d)
       \/ \E k \in Keys : GetOpen(d, k)
  \/ \E k \in Keys : Delete(k)

-----------------------------------------------------------------------------
\* disk.go, Put: an object whose location was returned is whole and is its
\* alone, and so it is for who opened it from then on, whatever was stored, half
\* stored or deleted there, as long as no other Put opened the same file
\* meanwhile or since.
LocatedIsWhole ==
  \A u \in Uploads \ disturbed :
    /\ put[u].at = "located" => inode[put[u].file] = Content(u)
    /\ \A d \in Downloads :
         get[d].at = "read" /\ u \in get[d].of => get[d].read = Content(u)
=============================================================================
