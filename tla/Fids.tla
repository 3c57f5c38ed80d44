-------------------------------- MODULE Fids -------------------------------
(***************************************************************************)
(* The fid table of an export, styx/svcs/exportfs.c, with the channels and *)
(* the unique qids (styx/svcs/uqid.c) its fids own, as concurrent slaves   *)
(* use them for one client.                                                *)
(*                                                                         *)
(* The client is the mount driver of the other side: it uses a fid only    *)
(* after the attach or walk that made it was answered; it opens, creates,  *)
(* moves, clunks and removes a fid only while nothing else is pending on   *)
(* it; walks, reads, writes and stats of a fid may be pending together; a  *)
(* fid number is free for it again once a clunk or a remove is over,       *)
(* however it ended (devmnt.c, mntclunk; chan.c, cclose and newchan).      *)
(*                                                                         *)
(* A step is a section under fs->fidlock or uqids.l, or one call of a      *)
(* device.  Queueing, flushes and replies of the requests are in Exportfs. *)
(***************************************************************************)
EXTENDS Integers, FiniteSets

CONSTANTS
  Fid,         \* the fid numbers the client uses
  Slaves,      \* the slaves that may be at work at once
  File,        \* the files of the exported name space: device, high and low
               \* part of the qid.path, <<dev, hi, lo>>
  Root,        \* the file of fs->root
  MountPoint,  \* the file other files are mounted on,
  MountedOn,   \* and the first of those
  MaxGen,      \* 1<<16 in uqidalloc
  Chans,       \* bound: the channels that may be allocated at once
  MaxNames,    \* bound: the elements of a walk (MAXWELEM)
  MaxReqs,     \* bound: the requests the client sends
  MaxFails,    \* bound: the device calls that fail
  None         \* nil

ASSUME FidsAssumption ==
  /\ {Root, MountPoint, MountedOn} \subseteq File
  /\ MaxGen \in Nat /\ MaxGen > Cardinality(File)
  /\ Chans \subseteq Nat /\ None \notin Chans /\ None \notin Fid /\ None \notin File
  /\ Cardinality(Chans) >= Cardinality(Fid) + Cardinality(Slaves)
  /\ {MaxNames, MaxReqs, MaxFails} \subseteq Nat

VARIABLES
  table,    \* fs->fid: per number None, or the Fid
  chans,    \* the channels: None, or reference count, file and COPEN
  uqids,    \* fs->uqids: per file None, or reference count and newpath
  pathgen,  \* fs->uqids.pathgen
  pc, req,  \* each slave: where it is, and the request it serves
  f, nf,    \* its f and nf: a fid number
  c, q,     \* its c and qid: a channel and a file whose Uqid it holds
  res,      \* how its request ends
  mine,     \* the client: the fids it may use,
  told,     \* and the qid.path it was last told for each
  lost,     \* fids whose clunk was flushed before a slave took it
  leaks,    \* per fid, the fcalls that ended without their Exputfid
  reqs, fails,  \* requests sent and device calls failed so far
  hungup, freed \* the connection is gone; exfree has freed the export

locals == <<pc, req, f, nf, c, q, res>>
qids == <<uqids, pathgen>>
client == <<mine, told, lost, reqs>>
outside == <<client, hungup, freed>>
vars == <<table, chans, qids, locals, outside, leaks, fails>>

Init ==
  /\ table = [x \in Fid |-> None] /\ chans = [x \in Chans |-> None]
  /\ uqids = [x \in File |-> None] /\ pathgen = 0
  /\ pc = [s \in Slaves |-> "idle"] /\ req = [s \in Slaves |-> None]
  /\ f = [s \in Slaves |-> None] /\ nf = [s \in Slaves |-> None]
  /\ c = [s \in Slaves |-> None] /\ q = [s \in Slaves |-> None]
  /\ res = [s \in Slaves |-> None]
  /\ mine = {} /\ told = [x \in Fid |-> None] /\ lost = {} /\ reqs = 0
  /\ leaks = [x \in Fid |-> 0] /\ fails = 0
  /\ hungup = FALSE /\ freed = FALSE

-----------------------------------------------------------------------------
(* Steps of a slave, and the client's side of a request.                    *)

Goto(s, from, to) == pc[s] = from /\ pc' = [pc EXCEPT ![s] = to]
Set(v, s, x) == [v EXCEPT ![s] = x]
Ends(s, how) == res' = Set(res, s, how)
\* What n references less leave of an object: it is freed with the last.
Less(o, n) == IF o = None \/ o.ref = n THEN None ELSE [o EXCEPT !.ref = @ - n]

Fails == fails < MaxFails /\ fails' = fails + 1

\* Whether a request being served names fid x.
Pending(x) == \E s \in Slaves : pc[s] # "idle" /\ (req[s].fid = x \/ req[s].newfid = x)

\* The requests that need their fid to themselves.
Exclusive == {"open", "create", "move", "clunk", "remove"}
Shared == {"walk", "io", "stat", "wstat"}   \* io: Tread or Twrite

\* A fid of the client whose file nothing is changing.
Still(x) ==
  /\ x \in mine
  /\ ~ \E s \in Slaves : pc[s] # "idle" /\ req[s].fid = x /\ req[s].type \in Exclusive

Request(type, x, y, n) == [type |-> type, fid |-> x, newfid |-> y, names |-> n, told |-> None]

\* What the client may ask next.
Asked ==
  LET new == {x \in Fid \ mine : ~ Pending(x)}
      still == {x \in mine : Still(x)}
      alone == {x \in mine : ~ Pending(x)}
  IN {Request("attach", None, y, 0) : y \in new}
     \cup {Request("walk", x, y, n) : x \in still, y \in new, n \in 0 .. MaxNames}
     \cup {Request("move", x, x, n) : x \in alone, n \in 0 .. MaxNames}
     \cup {Request(t, x, None, 0) : t \in Shared \ {"walk"}, x \in still}
     \cup {Request(t, x, None, 0) : t \in Exclusive \ {"move"}, x \in alone}

-----------------------------------------------------------------------------
(* Channels: newchan, incref and cclose of chan.c.                          *)

NewChan == CHOOSE x \in Chans : chans[x] = None /\ \A y \in Chans : chans[y] = None => x <= y
Opened(file) == [ref |-> 1, file |-> file, open |-> FALSE]
Share(x) == chans' = [chans EXCEPT ![x].ref = @ + 1]
cclose(x) == chans' = [y \in Chans |-> IF y = x THEN Less(chans[y], 1) ELSE chans[y]]

-----------------------------------------------------------------------------
(* Unique qids.                                                             *)

Paths(uq) == {uq[x].path : x \in {y \in File : uq[y] # None}}

\* The value of pathgen after k more turns of the loop in uqidalloc.
PathGen(k) == IF pathgen + k < MaxGen THEN pathgen + k ELSE pathgen + k - MaxGen + 1

\* Mutant: newpath is not compared with those in use.
uqidalloc_AnyPath(file) ==
  /\ uqids' = [uqids EXCEPT ![file] =
       IF @ = None THEN [ref |-> 1, path |-> <<file[2], file[3]>>] ELSE [@ EXCEPT !.ref = @ + 1]]
  /\ UNCHANGED pathgen

\* uqidalloc: the Uqid of the file, made with a path no other has if there is none.
uqidalloc(file) ==
  IF uqids[file] # None
  THEN uqids' = [uqids EXCEPT ![file].ref = @ + 1] /\ UNCHANGED pathgen
  ELSE LET path(k) == <<IF k = 0 THEN file[2] ELSE PathGen(k), file[3]>>
           k == CHOOSE k \in 0 .. MaxGen : /\ path(k) \notin Paths(uqids)
                                           /\ \A j \in 0 .. k - 1 : path(j) \in Paths(uqids)
       IN uqids' = [uqids EXCEPT ![file] = [ref |-> 1, path |-> path(k)]] /\ pathgen' = PathGen(k)

freeuqid(file) == uqids' = [x \in File |-> IF x = file THEN Less(uqids[x], 1) ELSE uqids[x]]

\* The qid.path a reply carries, kept with the request: mkuqid's but for Rstat.
Tell(s, path) == req' = [req EXCEPT ![s].told = path]

-----------------------------------------------------------------------------
(* Exmkfid, Exgetfid, Exputfid: the table under fs->fidlock.                *)

NewFid == [attached |-> TRUE, ref |-> 1, chan |-> None, qid |-> None]

\* The Fid x if it is in the table and attached.
Found(x) == table[x] # None /\ table[x].attached

\* Exgetfid for slave s, which goes on at "to", or ends with Enofid.
Exgetfid(s, x, to) ==
  \/ /\ Found(x)
     /\ Goto(s, "idle", to)
     /\ table' = [table EXCEPT ![x].ref = @ + 1]
     /\ f' = Set(f, s, x) /\ UNCHANGED res
  \/ /\ ~ Found(x)
     /\ Goto(s, "idle", "reply")
     /\ Ends(s, "Enofid") /\ UNCHANGED <<table, f>>

\* Mutant: an attached fid goes with its last fcall.
Exputfid_Unlinks(s, from, to, x) ==
  LET e == table[x] IN
  /\ Goto(s, from, IF e.ref = 1 THEN "free" ELSE to)
  /\ IF e.ref = 1
     THEN /\ table' = Set(table, x, None)
          /\ c' = Set(c, s, e.chan) /\ q' = Set(q, s, e.qid)
     ELSE table' = [table EXCEPT ![x].ref = @ - 1] /\ UNCHANGED <<c, q>>

\* Exputfid: the last user of a fid that is no longer attached unlinks it, and
\* frees its Uqid and its channel after the unlock, at "free".
Exputfid(s, from, to, x) ==
  LET e == table[x] IN
  /\ Goto(s, from, IF e.ref = 1 /\ ~ e.attached THEN "free" ELSE to)
  /\ IF e.ref = 1 /\ ~ e.attached
     THEN /\ table' = Set(table, x, None)
          /\ c' = Set(c, s, e.chan) /\ q' = Set(q, s, e.qid)
     ELSE table' = [table EXCEPT ![x].ref = @ - 1] /\ UNCHANGED <<c, q>>

\* A slave takes the request the client sends and looks its fid up.
Take(s, r) ==
  /\ ~ hungup /\ reqs < MaxReqs /\ reqs' = reqs + 1
  /\ r \in Asked /\ r.type # "attach"
  /\ Exgetfid(s, r.fid, IF r.type = "clunk" THEN "detach" ELSE "start")
  /\ req' = Set(req, s, r)
  /\ UNCHANGED <<chans, qids, nf, c, q, mine, told, fails, lost, leaks, hungup, freed>>

\* Exattach: Exmkfid, which fails if the number is in the table.
TakeAttach(s, r) ==
  /\ ~ hungup /\ reqs < MaxReqs /\ reqs' = reqs + 1
  /\ r \in Asked /\ r.type = "attach"
  /\ Goto(s, "idle", IF table[r.newfid] = None THEN "clone" ELSE "reply")
  /\ IF table[r.newfid] = None
     THEN table' = Set(table, r.newfid, NewFid) /\ f' = Set(f, s, r.newfid) /\ UNCHANGED res
     ELSE Ends(s, "Edupfid") /\ UNCHANGED <<table, f>>
  /\ req' = Set(req, s, r)
  /\ UNCHANGED <<chans, qids, nf, c, q, mine, told, fails, lost, leaks, hungup, freed>>

\* A Tclunk whose Tflush comes before a slave takes it is discarded (exflushed),
\* and the client has given the fid up.
LoseClunk(x) ==
  /\ ~ hungup /\ reqs < MaxReqs /\ reqs' = reqs + 1
  /\ x \in mine /\ ~ Pending(x)
  /\ mine' = mine \ {x} /\ lost' = lost \cup {x}
  /\ UNCHANGED <<table, chans, qids, locals, told, leaks, fails, hungup, freed>>

\* The reply, and what the client makes of it: the qids of Rattach, Rwalk, Ropen and
\* Rcreate are those of its fids; the one in an Rstat goes to whoever asked for it.
Reply(s) ==
  /\ Goto(s, "reply", "idle")
  /\ LET r == req[s]
         made == r.newfid # None /\ res[s] = None
     IN /\ mine' = (mine \ IF r.type \in {"clunk", "remove"} THEN {r.fid} ELSE {})
                   \cup IF made THEN {r.newfid} ELSE {}
        /\ told' = [x \in Fid |->
             IF made /\ x = r.newfid THEN (IF r.told = None THEN told[r.fid] ELSE r.told)
             ELSE IF r.type \in {"open", "create"} /\ x = r.fid /\ res[s] = None THEN r.told
             ELSE IF x \in mine' THEN told[x] ELSE None]
  /\ req' = Set(req, s, None) /\ Ends(s, None)
  /\ UNCHANGED <<table, chans, qids, f, nf, c, q, reqs, fails, lost, leaks, hungup, freed>>

\* cclose(c) and freeuqid(qid), before the Exputfid of f or after one.
Release(s) ==
  /\ Goto(s, "drop", "put") \/ Goto(s, "free", IF f[s] = None THEN "reply" ELSE "put")
  /\ cclose(c[s]) /\ freeuqid(q[s])
  /\ c' = Set(c, s, None) /\ q' = Set(q, s, None)
  /\ UNCHANGED <<table, pathgen, req, f, nf, res, outside, leaks, fails>>

Put(s) ==
  /\ Exputfid(s, "put", "reply", f[s])
  /\ f' = Set(f, s, None)
  /\ UNCHANGED <<chans, qids, req, nf, res, outside, leaks, fails>>

\* Exclunk.
Exclunk(s) ==
  /\ Goto(s, "detach", "put")
  /\ table' = [table EXCEPT ![f[s]].attached = FALSE]
  /\ UNCHANGED <<chans, qids, req, f, nf, c, q, res, outside, leaks, fails>>

-----------------------------------------------------------------------------
(* Exattach.                                                                *)

AttachClone(s) ==
  /\ Goto(s, "clone", "qid")
  /\ LET n == NewChan IN
     /\ chans' = Set(chans, n, Opened(Root))
     /\ table' = [table EXCEPT ![f[s]].chan = n]
  /\ UNCHANGED <<qids, req, f, nf, c, q, res, outside, leaks, fails>>

AttachFails(s) ==
  /\ Goto(s, "clone", "put") /\ Fails /\ Ends(s, "error")
  /\ table' = [table EXCEPT ![f[s]].attached = FALSE]
  /\ UNCHANGED <<chans, qids, req, f, nf, c, q, outside, leaks>>

AttachQid(s) ==
  /\ Goto(s, "qid", "put")
  /\ uqidalloc(Root) /\ Tell(s, uqids'[Root].path)
  /\ table' = [table EXCEPT ![f[s]].qid = Root]
  /\ UNCHANGED <<chans, f, nf, c, q, res, outside, leaks, fails>>

-----------------------------------------------------------------------------
(* Exwalk.                                                                  *)

Chan(s) == table[f[s]].chan
Walks(s) == req[s].type \in {"walk", "move"}

WalkOpen(s) ==
  /\ Goto(s, "start", "put") /\ Walks(s) /\ Ends(s, "Eopen")
  /\ chans[Chan(s)].open
  /\ UNCHANGED <<table, chans, qids, req, f, nf, c, q, outside, leaks, fails>>

WalkClone(s) ==
  /\ Goto(s, "start", "walk") /\ Walks(s) /\ ~ chans[Chan(s)].open
  /\ LET n == NewChan IN
     /\ chans' = Set(chans, n, Opened(chans[Chan(s)].file)) /\ c' = Set(c, s, n)
  /\ q' = Set(q, s, table[f[s]].qid)
  /\ uqids' = [uqids EXCEPT ![table[f[s]].qid].ref = @ + 1]
  /\ UNCHANGED <<table, pathgen, req, f, nf, res, outside, leaks, fails>>

\* The three error paths that return without Exputfid (cclone in Exwalk, exmount in
\* Exopen and in Exstat): the slave forgets f, and the fid stays counted.
Leaks(s) ==
  /\ Fails /\ Ends(s, "error")
  /\ leaks' = [leaks EXCEPT ![f[s]] = @ + 1] /\ f' = Set(f, s, None)
  /\ UNCHANGED <<table, chans, qids, req, nf, c, q, outside>>

\* cclone fails; its handler returns.
WalkCloneFails(s) ==
  /\ Goto(s, "start", "reply") /\ Walks(s) /\ ~ chans[Chan(s)].open
  /\ Leaks(s)

\* The names of a Twalk, one at a time.  At the root an empty name and ".." stay.
WalkStays(s) ==
  /\ Goto(s, "walk", "walk") /\ req[s].names > 0 /\ chans[c[s]].file = Root
  /\ req' = [req EXCEPT ![s].names = @ - 1, ![s].told = uqids[q[s]].path]
  /\ UNCHANGED <<table, chans, qids, f, nf, c, q, res, outside, leaks, fails>>

safewalk(s, file) ==
  /\ Goto(s, "walk", "walkqid") /\ req[s].names > 0
  /\ chans' = [chans EXCEPT ![c[s]].file = file]
  /\ freeuqid(q[s]) /\ q' = Set(q, s, None)
  /\ UNCHANGED <<table, pathgen, req, f, nf, c, res, outside, leaks, fails>>

WalkQid(s) ==
  /\ Goto(s, "walkqid", "walk")
  /\ LET file == chans[c[s]].file IN
     /\ uqidalloc(file) /\ q' = Set(q, s, file)
     /\ req' = [req EXCEPT ![s].names = @ - 1, ![s].told = uqids'[file].path]
  /\ UNCHANGED <<table, chans, f, nf, c, res, outside, leaks, fails>>

\* The first name fails: an error; a later one: a reply of fewer qids, and no newfid.
WalkFails(s) ==
  /\ Goto(s, "walk", "drop") /\ req[s].names > 0 /\ Fails /\ Ends(s, "error")
  /\ UNCHANGED <<table, chans, qids, req, f, nf, c, q, outside, leaks>>

WalkMakes(s) ==
  /\ Goto(s, "walk", IF table[req[s].newfid] = None THEN "fill" ELSE "drop")
  /\ req[s].type = "walk" /\ req[s].names = 0
  /\ IF table[req[s].newfid] = None
     THEN /\ table' = Set(table, req[s].newfid, NewFid)
          /\ nf' = Set(nf, s, req[s].newfid) /\ UNCHANGED res
     ELSE Ends(s, "Edupfid") /\ UNCHANGED <<table, nf>>
  /\ UNCHANGED <<chans, qids, req, f, c, q, outside, leaks, fails>>

WalkFills(s) ==
  /\ Goto(s, "fill", "putnf")
  /\ table' = [table EXCEPT ![nf[s]].chan = c[s], ![nf[s]].qid = q[s]]
  /\ c' = Set(c, s, None) /\ q' = Set(q, s, None)
  /\ UNCHANGED <<chans, qids, req, f, nf, res, outside, leaks, fails>>

PutNew(s) ==
  /\ Exputfid(s, "putnf", "put", nf[s])
  /\ nf' = Set(nf, s, None)
  /\ UNCHANGED <<chans, qids, req, f, res, outside, leaks, fails>>

\* The channel and the Uqid a slave made replace those of its fid: newfid = fid in
\* Exwalk, and the end of Exopen and Excreate.
Replaces(s) ==
  /\ cclose(Chan(s)) /\ freeuqid(table[f[s]].qid)
  /\ table' = [table EXCEPT ![f[s]].chan = c[s], ![f[s]].qid = q[s]]
  /\ c' = Set(c, s, None) /\ q' = Set(q, s, None)

WalkMoves(s) ==
  /\ Goto(s, "walk", "put") /\ req[s].type = "move" /\ req[s].names = 0
  /\ Replaces(s)
  /\ UNCHANGED <<pathgen, req, f, nf, res, outside, leaks, fails>>

-----------------------------------------------------------------------------
(* exmount and the device call of the other requests.                       *)

\* Exopen and Excreate refuse an open fid, Exread and Exwrite one that is not.
Refused(s) ==
  \/ req[s].type \in {"open", "create"} /\ chans[Chan(s)].open
  \/ req[s].type = "io" /\ ~ chans[Chan(s)].open

Refuse(s) ==
  /\ Goto(s, "start", "put") /\ Refused(s) /\ Ends(s, "Emode")
  /\ UNCHANGED <<table, chans, qids, req, f, nf, c, q, outside, leaks, fails>>

Mounts(s) == ~ Walks(s) /\ req[s].type # "io" /\ ~ Refused(s)
OnMount(s) == ~ chans[Chan(s)].open /\ chans[Chan(s)].file = MountPoint

\* Mutant: f->chan is used without a reference.
exmount_NoIncref(s) ==
  /\ Goto(s, "start", "device") /\ Mounts(s)
  /\ IF OnMount(s)
     THEN LET n == NewChan IN chans' = Set(chans, n, Opened(MountedOn)) /\ c' = Set(c, s, n)
     ELSE UNCHANGED chans /\ c' = Set(c, s, Chan(s))
  /\ UNCHANGED <<table, qids, req, f, nf, q, res, outside, leaks, fails>>

\* exmount: a copy of what is mounted on the file, or one more reference to f->chan.
exmount(s) ==
  /\ Goto(s, "start", "device") /\ Mounts(s)
  /\ IF OnMount(s)
     THEN LET n == NewChan IN chans' = Set(chans, n, Opened(MountedOn)) /\ c' = Set(c, s, n)
     ELSE Share(Chan(s)) /\ c' = Set(c, s, Chan(s))
  /\ UNCHANGED <<table, qids, req, f, nf, q, res, outside, leaks, fails>>

\* cunique fails: Exopen and Exstat have set no handler yet.
ExmountLeaks(s) ==
  /\ Goto(s, "start", "reply") /\ Mounts(s) /\ OnMount(s)
  /\ req[s].type \in {"open", "stat"}
  /\ Leaks(s)

\* cunique fails, or validname in Excreate or validstat in Exwstat before it.
ExmountFails(s) ==
  /\ Goto(s, "start", IF req[s].type = "remove" THEN "detach" ELSE "put")
  /\ Mounts(s) /\ req[s].type \notin {"open", "stat"}
  /\ OnMount(s) \/ req[s].type \in {"create", "wstat"}
  /\ Fails /\ Ends(s, "error")
  /\ UNCHANGED <<table, chans, qids, req, f, nf, c, q, outside, leaks>>

\* Exread and Exwrite call the device on f->chan itself.
StartIO(s) ==
  /\ Goto(s, "start", "io") /\ req[s].type = "io" /\ ~ Refused(s)
  /\ c' = Set(c, s, Chan(s))
  /\ UNCHANGED <<table, chans, qids, req, f, nf, q, res, outside, leaks, fails>>

EndIO(s) ==
  /\ Goto(s, "io", "put")
  /\ \/ UNCHANGED <<fails, res>>
     \/ Fails /\ Ends(s, "error")
  /\ c' = Set(c, s, None)
  /\ UNCHANGED <<table, chans, qids, req, f, nf, q, outside, leaks>>

\* devtab open and create: the channel is open, after create on the new file.
DeviceOpens(s, file) ==
  /\ Goto(s, "device", "newqid") /\ req[s].type \in {"open", "create"}
  /\ req[s].type = "open" => file = chans[c[s]].file
  /\ chans' = [chans EXCEPT ![c[s]].file = file, ![c[s]].open = TRUE]
  /\ UNCHANGED <<table, qids, req, f, nf, c, q, res, outside, leaks, fails>>

OpenQid(s) ==
  /\ Goto(s, "newqid", "replace")
  /\ LET file == chans[c[s]].file IN
     uqidalloc(file) /\ q' = Set(q, s, file) /\ Tell(s, uqids'[file].path)
  /\ UNCHANGED <<table, chans, f, nf, c, res, outside, leaks, fails>>

OpenReplaces(s) ==
  /\ Goto(s, "replace", "put") /\ Replaces(s)
  /\ UNCHANGED <<pathgen, req, f, nf, res, outside, leaks, fails>>

\* devtab stat: Exstat puts into the reply what the device wrote, its own qid.path
\* ("TO DO: need to change qid"); mkuqid is not called.
DeviceStats(s) ==
  /\ Goto(s, "device", "drop") /\ req[s].type = "stat"
  /\ LET file == chans[c[s]].file IN Tell(s, <<file[2], file[3]>>)
  /\ UNCHANGED <<table, chans, qids, f, nf, c, q, res, outside, leaks, fails>>

\* devtab wstat or remove, or any device call failing; c is closed on every way out.
DeviceEnds(s) ==
  /\ Goto(s, "device", IF req[s].type = "remove" THEN "dropdetach" ELSE "drop")
  /\ \/ req[s].type \in {"wstat", "remove"} /\ UNCHANGED <<fails, res>>
     \/ Fails /\ Ends(s, "error")
  /\ UNCHANGED <<table, chans, qids, req, f, nf, c, q, outside, leaks>>

\* Exremove: cclose(c), then f->attached = 0 at "detach".
RemoveCloses(s) ==
  /\ Goto(s, "dropdetach", "detach")
  /\ cclose(c[s]) /\ c' = Set(c, s, None)
  /\ UNCHANGED <<table, qids, req, f, nf, q, res, outside, leaks, fails>>

-----------------------------------------------------------------------------
(* The end of the export.                                                   *)

HangUp ==
  /\ ~ hungup /\ hungup' = TRUE
  /\ UNCHANGED <<table, chans, qids, locals, client, leaks, fails, freed>>

\* Mutant: the channels are not closed.
exfreefids_KeepsChans ==
  /\ hungup /\ ~ freed /\ freed' = TRUE
  /\ \A s \in Slaves : pc[s] = "idle"
  /\ LET unused == {x \in Fid : table[x] # None /\ table[x].ref = 0} IN
     /\ UNCHANGED chans
     /\ uqids' = [x \in File |-> Less(uqids[x], Cardinality({y \in unused : table[y].qid = x}))]
     /\ table' = [x \in Fid |-> IF x \in unused \/ table[x] = None THEN None
                                ELSE [table[x] EXCEPT !.attached = FALSE]]
  /\ UNCHANGED <<pathgen, locals, client, leaks, fails, hungup>>

\* exfree, by the last request: exfreefids releases every fid no fcall uses.
exfreefids ==
  /\ hungup /\ ~ freed /\ freed' = TRUE
  /\ \A s \in Slaves : pc[s] = "idle"
  /\ LET unused == {x \in Fid : table[x] # None /\ table[x].ref = 0} IN
     /\ chans' = [x \in Chans |-> Less(chans[x], Cardinality({y \in unused : table[y].chan = x}))]
     /\ uqids' = [x \in File |-> Less(uqids[x], Cardinality({y \in unused : table[y].qid = x}))]
     /\ table' = [x \in Fid |-> IF x \in unused \/ table[x] = None THEN None
                                ELSE [table[x] EXCEPT !.attached = FALSE]]
  /\ UNCHANGED <<pathgen, locals, client, leaks, fails, hungup>>

\* Nothing is left to do.
Over == freed /\ UNCHANGED vars

Slave(s) ==
  \/ Exclunk(s) \/ Release(s) \/ Put(s) \/ Reply(s)
  \/ AttachClone(s) \/ AttachFails(s) \/ AttachQid(s)
  \/ WalkOpen(s) \/ WalkClone(s) \/ WalkCloneFails(s) \/ WalkStays(s)
  \/ \E file \in File : safewalk(s, file)
  \/ WalkQid(s) \/ WalkFails(s) \/ WalkMakes(s) \/ WalkFills(s) \/ PutNew(s) \/ WalkMoves(s)
  \/ Refuse(s) \/ exmount(s) \/ ExmountLeaks(s) \/ ExmountFails(s)
  \/ StartIO(s) \/ EndIO(s)
  \/ \E file \in File : DeviceOpens(s, file)
  \/ OpenQid(s) \/ OpenReplaces(s) \/ DeviceStats(s) \/ DeviceEnds(s) \/ RemoveCloses(s)

Next ==
  \/ \E s \in Slaves : Slave(s) \/ \E r \in Asked : Take(s, r) \/ TakeAttach(s, r)
  \/ \E x \in Fid : LoseClunk(x)
  \/ HangUp \/ exfreefids \/ Over

Spec == Init /\ [][Next]_vars

-----------------------------------------------------------------------------
TypeOK ==
  /\ \A x \in Fid : table[x] = None \/ table[x] \in
       [attached : BOOLEAN, ref : Nat, chan : Chans \cup {None}, qid : File \cup {None}]
  /\ \A x \in Chans : chans[x] = None \/ chans[x] \in [ref : Nat \ {0}, file : File, open : BOOLEAN]
  /\ \A x \in File : uqids[x] = None \/
       /\ uqids[x].ref \in Nat \ {0}
       /\ uqids[x].path[1] \in {x[2]} \cup 1 .. MaxGen - 1 /\ uqids[x].path[2] = x[3]
  /\ pathgen \in 0 .. MaxGen - 1
  /\ \A s \in Slaves : /\ f[s] \in Fid \cup {None} /\ nf[s] \in Fid \cup {None}
                       /\ c[s] \in Chans \cup {None} /\ q[s] \in File \cup {None}
                       /\ pc[s] = "idle" <=> req[s] = None
  /\ mine \subseteq Fid /\ lost \subseteq Fid /\ leaks \in [Fid -> Nat]
  /\ hungup \in BOOLEAN /\ freed \in BOOLEAN

Fcalls(x) == {s \in Slaves : f[s] = x} \cup {<<s>> : s \in {t \in Slaves : nf[t] = x}}

\* Fid.ref: a fid's count is the number of fcalls using it, and of those that ended in
\* one of the error paths of Leaks, and on no other path; a fid some fcall uses is in
\* the table, so no fcall reaches freed memory.
RefsExact ==
  \A x \in Fid : (IF table[x] = None THEN 0 ELSE table[x].ref) = Cardinality(Fcalls(x)) + leaks[x]

\* exportfs.c:43 says that ref is the "fcalls using the fid".  False after an error of
\* cclone in Exwalk, or of exmount in Exopen or Exstat, which return without Exputfid:
\* the fid stays in the table after its clunk and keeps its channel and its number.
RefIsFcalls ==
  \A x \in Fid : table[x] # None => table[x].ref = Cardinality(Fcalls(x))

\* A channel's references are the fids and the fcalls that own it: cclose frees it with
\* the last of them, none is closed twice, and none is left open that nobody has.
\* Exread and Exwrite take no reference to the channel they use: their fid keeps it.
ChansExact ==
  /\ \A x \in Chans :
       (IF chans[x] = None THEN 0 ELSE chans[x].ref) =
         Cardinality({y \in Fid : table[y] # None /\ table[y].chan = x})
         + Cardinality({s \in Slaves : pc[s] # "io" /\ c[s] = x})
  /\ \A s \in Slaves : pc[s] = "io" => c[s] = Chan(s) /\ chans[c[s]] # None

\* A Uqid is in the table exactly while a fid or an fcall refers to its file.
UqidsExact ==
  \A x \in File :
    (IF uqids[x] = None THEN 0 ELSE uqids[x].ref) =
      Cardinality({y \in Fid : table[y] # None /\ table[y].qid = x})
      + Cardinality({s \in Slaves : q[s] = x})

\* A file call gives back every channel and Uqid it took on each of its paths, and its
\* fids on all but the three of Leaks (RefIsFcalls): counts are exact at every step.
ReferencesCounted == TypeOK /\ RefsExact /\ ChansExact /\ UqidsExact

\* uqid.c, "unique Qid path generation": of the fids the client has and nothing is
\* changing, two have been told the same qid.path by Rattach, Rwalk, Ropen or Rcreate if
\* and only if they are on one file, though qids of several devices collide and are made
\* again as fids come and go.  An Rstat's qid is not among them: see StatsTellFilesApart.
FileOf(x) == chans[table[x].chan].file
QidsTellFilesApart ==
  \A x, y \in Fid : Still(x) /\ Still(y) /\ ~ freed => (told[x] = told[y] <=> FileOf(x) = FileOf(y))

\* uqid.c says the generated paths are "for exportfs.c", to be unique: an Rstat
\* should carry the path of the client's fids on the file it describes and of no other.
\* False: Exstat sends the device's own path, which may be that of another file's fid.
StatsTellFilesApart ==
  \A s \in Slaves : pc[s] = "drop" /\ req[s].type = "stat" /\ res[s] = None =>
    \A x \in Fid : Still(x) => (req[s].told = told[x] <=> chans[c[s]].file = FileOf(x))

\* A fid the client may use is in the table with a channel and a Uqid: no fcall of this
\* client ends with Enofid, or meets the fid that Exmkfid made and nobody filled yet.
ClientFidsServed ==
  /\ \A x \in mine : Still(x) /\ ~ freed =>
       Found(x) /\ table[x].chan # None /\ table[x].qid # None
  /\ \A s \in Slaves : res[s] # "Enofid" /\ (pc[s] \in {"start", "device"} => Chan(s) # None)

\* A fid number the client is free to use again is free in the table: Edupfid is only
\* met where an error path kept a reference, or the clunk was flushed before it ran.
ClunkedFidsFree ==
  /\ \A x \in Fid \ mine : ~ Pending(x) /\ table[x] # None => leaks[x] > 0 \/ x \in lost
  /\ \A s \in Slaves : res[s] = "Edupfid" =>
       leaks[req[s].newfid] > 0 \/ req[s].newfid \in lost

\* When the export is freed every channel and Uqid is released, those of a fid the
\* client never clunked too, except what a busy fid keeps.
FreedClean ==
  freed => /\ \A x \in Fid : table[x] # None => leaks[x] > 0
           /\ \A x \in Chans : chans[x] # None => \E y \in Fid : leaks[y] > 0 /\ table[y].chan = x

\* Nothing outlives its use: neither a fid its clunk, nor the export's channels the hang-up.
NothingKept == ClunkedFidsFree /\ FreedClean
=============================================================================
