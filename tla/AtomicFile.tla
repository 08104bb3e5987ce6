----------------------------- MODULE AtomicFile -----------------------------
(***************************************************************************)
(* Atomic replacement of files (System/Utility/AtomicFile.cpp).            *)
(* fopenAtomic opens a work file next to the real one, fcloseAtomic makes  *)
(* its data durable and renames it over the real one, fabortAtomic and     *)
(* fabortAllAtomic drop it.  atomicList has a record for each open file:   *)
(* its FILE pointer, its real name and its work name.                      *)
(*                                                                         *)
(* Each library call of fcloseAtomic is a step that succeeds or fails, and *)
(* the machine may crash between any two.  A crash loses what stdio        *)
(* buffers, cuts a file anywhere behind what was synced, and may undo a    *)
(* rename.  A FILE that fclose has freed may be handed out again by fopen. *)
(* There is one thread: atomicList has no lock.                            *)
(***************************************************************************)
EXTENDS Naturals, Sequences, SequencesExt

CONSTANTS
  Name,         \* path names as the caller spells them
  File,         \* the files they denote
  FileOf,
  FP,           \* FILE pointers
  Closed,       \* a FILE that is free
  MaxOpens,     \* bound: fopenAtomic calls that succeed
  MaxWrites     \* bound: writes to one open file

ASSUME NameAssumption == FileOf \in [Name -> File] /\ Name # {} /\ FP # {}
ASSUME BoundAssumption ==
  /\ MaxOpens \in Nat /\ MaxWrites \in Nat
  /\ Closed \notin 1..MaxOpens

Session == 1..MaxOpens          \* one per successful fopenAtomic
Text == Seq(Session)            \* a file's content: who wrote each block

VARIABLES
  atomicList,   \* sessions with a record, in order
  name, file,   \* the record's realName and FILE pointer
  appends,      \* sessions opened in append mode
  unread,       \* history: those that were told the real file is not there
  stream,       \* the session each FILE writes to, or Closed
  buf,          \* per session: all that was written through its FILE
  data,         \* how much of it stdio has written to the work file
  synced,       \* how much of that a crash keeps
  real,         \* per file: content, and how much of it a crash keeps
  replaced,     \* per file: contents a crash may bring back
  opens,        \* sessions so far
  call,         \* the library call in progress
  result,       \* per session: what its client knows
  committed,    \* history: sessions whose work file was renamed
  overtaken,    \* history: sessions that were open when another one renamed
                \* its work file to their file
  freedByError  \* history: fclose freed a FILE and reported an error

sessionVars == <<name, file, appends, unread, opens>>
diskVars == <<real, replaced, committed, overtaken>>
vars == <<atomicList, name, file, appends, unread, stream, buf, data, synced,
          real, replaced, opens, call, result, committed, overtaken, freedByError>>

Idle == [op |-> "idle", mine |-> 0, rec |-> 0]

Init ==
  /\ atomicList = <<>>
  /\ name = [s \in Session |-> CHOOSE n \in Name : TRUE]
  /\ file = [s \in Session |-> CHOOSE f \in FP : TRUE]
  /\ appends = {}
  /\ unread = {}
  /\ stream = [f \in FP |-> Closed]
  /\ buf = [s \in Session |-> <<>>]
  /\ data = [s \in Session |-> 0]
  /\ synced = [s \in Session |-> 0]
  /\ real = [f \in File |-> [text |-> <<>>, safe |-> 0]]
  /\ replaced = [f \in File |-> {}]
  /\ opens = 0
  /\ call = Idle
  /\ result = [s \in Session |-> "none"]
  /\ committed = {}
  /\ overtaken = {}
  /\ freedByError = FALSE

\* find_by_fp and find_by_realName: the first record with the FILE or the name
PlacesOf(fp) == {i \in 1..Len(atomicList) : file[atomicList[i]] = fp}
RecordOf(fp) == atomicList[Min(PlacesOf(fp))]
NameIsOpen(n) == \E r \in ToSet(atomicList) : name[r] = n

-----------------------------------------------------------------------------
(* fopenAtomic: mkstemp, in append mode a copy of the real file, fopen.     *)
(* A failure before the record is pushed leaves no trace but a work file.   *)
(* Any error of the open of the real file, as when no descriptor is free, is *)
(* taken for its absence: there is "Nothing to Append".                     *)

OpenWith(n, append, start) ==
  /\ call = Idle
  /\ opens < MaxOpens
  /\ opens' = opens + 1
  /\ \E fp \in {f \in FP : stream[f] = Closed} :
       /\ stream' = [stream EXCEPT ![fp] = opens']
       /\ file' = [file EXCEPT ![opens'] = fp]
  /\ name' = [name EXCEPT ![opens'] = n]
  /\ appends' = IF append THEN appends \cup {opens'} ELSE appends
  /\ buf' = [buf EXCEPT ![opens'] = start]
  /\ data' = [data EXCEPT ![opens'] = Len(start)]
  /\ result' = [result EXCEPT ![opens'] = "open"]
  /\ atomicList' = Append(atomicList, opens')
  /\ UNCHANGED <<synced, diskVars, call, freedByError>>

CopyAndOpen(n, append) ==
  /\ OpenWith(n, append, IF append THEN real[FileOf[n]].text ELSE <<>>)
  /\ UNCHANGED unread

OpenUnread(n) ==
  /\ real[FileOf[n]].text # <<>>
  /\ OpenWith(n, TRUE, <<>>)
  /\ unread' = unread \cup {opens'}

\* Faulty: the name is not looked up.
OpenTwice(n, append) == CopyAndOpen(n, append)

\* Faulty: append mode starts from an empty work file.
OpenWithoutCopy(n, append) ==
  ~NameIsOpen(n) /\ OpenWith(n, append, <<>>) /\ UNCHANGED unread

fopenAtomic(n, append) ==
  /\ ~NameIsOpen(n)
  /\ CopyAndOpen(n, append) \/ (append /\ OpenUnread(n))

\* copy_file: read returns -1, write returns -1 for it, and the loop goes on.
CopyReadFails(n) ==
  /\ call = Idle
  /\ opens < MaxOpens
  /\ ~NameIsOpen(n)
  /\ real[FileOf[n]].text # <<>>
  /\ call' = [Idle EXCEPT !.op = "copying"]
  /\ UNCHANGED <<atomicList, sessionVars, stream, buf, data, synced, diskVars,
                 result, freedByError>>

-----------------------------------------------------------------------------
(* Writing through the FILE; stdio writes to the file when it likes, and a  *)
(* write that fails adds nothing.                                           *)

Written(s) == Len(SelectSeq(buf[s], LAMBDA w : w = s))

fwrite(s) ==
  /\ call = Idle
  /\ result[s] = "open"
  /\ stream[file[s]] = s
  /\ Written(s) < MaxWrites
  /\ \E b \in {buf[s], Append(buf[s], s)} :
       /\ buf' = [buf EXCEPT ![s] = b]
       /\ \E n \in {data[s], Len(b)} : data' = [data EXCEPT ![s] = n]
  /\ UNCHANGED <<atomicList, sessionVars, stream, synced, diskVars, call,
                 result, freedByError>>

-----------------------------------------------------------------------------
(* fcloseAtomic.                                                            *)

\* The client's FILE, and the first record that has it.  As after fclose, a
\* client does not use its FILE again, whatever the call returns.
Begin(s, op) ==
  /\ call = Idle
  /\ result[s] = "open"
  /\ PlacesOf(file[s]) # {}
  /\ call' = [op |-> op, mine |-> s, rec |-> RecordOf(file[s])]
  /\ UNCHANGED <<atomicList, sessionVars, stream, buf, data, synced, diskVars,
                 result, freedByError>>

fcloseAtomic(s) == Begin(s, "flush")

Stream == stream[file[call.mine]]        \* the session behind the FILE, if open

Goto(op) == call' = [call EXCEPT !.op = op] /\ UNCHANGED result
Forget(r) ==                             \* atomicList.remove
  atomicList' = RemoveAt(atomicList, CHOOSE i \in 1..Len(atomicList) : atomicList[i] = r)
Return(res) == call' = Idle /\ result' = [result EXCEPT ![call.mine] = res]

\* The FILE was freed by an earlier call: the library call may report an error.
UseFreedFile ==
  /\ call.op \in {"flush", "abort"}
  /\ Stream = Closed
  /\ Return("failed")
  /\ UNCHANGED <<atomicList, sessionVars, stream, buf, data, synced, diskVars,
                 freedByError>>

Flush ==
  /\ call.op = "flush"
  /\ Stream # Closed
  /\ \E n \in data[Stream]..Len(buf[Stream]) :
       /\ data' = [data EXCEPT ![Stream] = n]
       /\ IF n = Len(buf[Stream]) THEN Goto("sync") \/ Return("failed")
          ELSE Return("failed")
  /\ UNCHANGED <<atomicList, sessionVars, stream, buf, synced, diskVars,
                 freedByError>>

\* Faulty: the data is not synced.
SkipSync ==
  /\ call.op = "sync"
  /\ Goto("close")
  /\ UNCHANGED <<atomicList, sessionVars, stream, buf, data, synced, diskVars,
                 freedByError>>

Sync ==
  /\ call.op = "sync"
  /\ \/ /\ synced' = [synced EXCEPT ![Stream] = data[Stream]]
        /\ Goto("close")
     \/ Return("failed") /\ UNCHANGED synced
  /\ UNCHANGED <<atomicList, sessionVars, stream, buf, data, diskVars,
                 freedByError>>

\* fclose frees the FILE whatever it returns; on an error the record stays.
CloseStream ==
  /\ call.op = "close"
  /\ stream' = [stream EXCEPT ![file[call.mine]] = Closed]
  /\ \/ Goto("rename") /\ UNCHANGED freedByError
     \/ Return("failed") /\ freedByError' = TRUE
  /\ UNCHANGED <<atomicList, sessionVars, buf, data, synced, diskVars>>

RenameTo(f) ==
  /\ real' = [real EXCEPT ![f] = [text |-> SubSeq(buf[call.rec], 1, data[call.rec]),
                                  safe |-> synced[call.rec]]]
  /\ replaced' = [replaced EXCEPT ![f] = @ \cup {real[f]}]
  /\ committed' = committed \cup {call.rec}
  /\ overtaken' = overtaken \cup
       {s \in ToSet(atomicList) \ {call.rec} : FileOf[name[s]] = f}

\* rename, and the record is removed whatever it returns
Rename ==
  /\ call.op = "rename"
  /\ \/ RenameTo(FileOf[name[call.rec]]) /\ Return("ok")
     \/ UNCHANGED diskVars /\ Return("failed")
  /\ Forget(call.rec)
  /\ UNCHANGED <<sessionVars, stream, buf, data, synced, freedByError>>

-----------------------------------------------------------------------------
(* fabortAtomic and fabortAllAtomic.                                        *)

fabortAtomic(s) == Begin(s, "abort")

\* fclose, unlink; on an error of fclose the record stays.
AbortGuts ==
  /\ call.op = "abort"
  /\ Stream # Closed
  /\ stream' = [stream EXCEPT ![file[call.mine]] = Closed]
  /\ \/ /\ Forget(call.rec)
        /\ Return("aborted")
        /\ UNCHANGED freedByError
     \/ /\ Return("failed")
        /\ freedByError' = TRUE
        /\ UNCHANGED atomicList
  /\ UNCHANGED <<sessionVars, buf, data, synced, diskVars>>

\* Called for a process whose clients are gone; it stops at the first error.
fabortAllAtomic ==
  /\ call.op = "idle" \/ call.op = "abortAll"
  /\ IF atomicList = <<>>
     THEN call.op = "abortAll" /\ call' = Idle /\ UNCHANGED <<atomicList, stream, result, freedByError>>
     ELSE LET r == Head(atomicList) IN
       /\ result' = [result EXCEPT ![r] = "aborted"]
       /\ stream' = [stream EXCEPT ![file[r]] = Closed]
       /\ \/ /\ stream[file[r]] # Closed
             /\ atomicList' = Tail(atomicList)
             /\ call' = [Idle EXCEPT !.op = "abortAll"]
             /\ UNCHANGED freedByError
          \/ /\ call' = Idle
             /\ freedByError' = TRUE
             /\ UNCHANGED atomicList
  /\ UNCHANGED <<sessionVars, buf, data, synced, diskVars>>

-----------------------------------------------------------------------------
\* What a crash may leave of a file: an older content, or a cut one.
Survivors(f) ==
  UNION {{SubSeq(v.text, 1, n) : n \in v.safe..Len(v.text)} :
           v \in replaced[f] \cup {real[f]}}

Crash ==
  /\ opens > 0
  /\ \E t \in [File -> UNION {Survivors(f) : f \in File}] :
       /\ \A f \in File : t[f] \in Survivors(f)
       /\ real' = [f \in File |-> [text |-> t[f], safe |-> Len(t[f])]]
  /\ replaced' = [f \in File |-> {}]
  /\ atomicList' = <<>>
  /\ stream' = [f \in FP |-> Closed]
  /\ call' = Idle
  /\ result' = [s \in Session |-> IF s <= opens THEN "gone" ELSE "none"]
  /\ UNCHANGED <<sessionVars, buf, data, synced, committed, overtaken, freedByError>>

Next ==
  \/ \E n \in Name : \/ \E append \in BOOLEAN : fopenAtomic(n, append)
                     \/ CopyReadFails(n)
  \/ \E s \in Session : fwrite(s) \/ fcloseAtomic(s) \/ fabortAtomic(s)
  \/ UseFreedFile \/ Flush \/ Sync \/ CloseStream \/ Rename
  \/ AbortGuts \/ fabortAllAtomic
  \/ Crash

Spec == Init /\ [][Next]_vars

-----------------------------------------------------------------------------
\* Types; the records have names of their own, and a file on disk is no longer
\* than what stdio was given.
TypeOK ==
  /\ atomicList \in Seq(Session)
  /\ name \in [Session -> Name]
  /\ file \in [Session -> FP]
  /\ appends \subseteq Session /\ unread \subseteq Session
  /\ stream \in [FP -> Session \cup {Closed}]
  /\ buf \in [Session -> Text]
  /\ real \in [File -> [text : Text, safe : Nat]]
  /\ opens \in 0..MaxOpens
  /\ call.op \in {"idle", "copying", "flush", "sync", "close", "rename", "abort",
                  "abortAll"}
  /\ result \in [Session -> {"none", "open", "ok", "failed", "aborted", "gone"}]
  /\ committed \subseteq Session /\ overtaken \subseteq Session
  /\ freedByError \in BOOLEAN
  /\ \A s \in Session : synced[s] <= data[s] /\ data[s] <= Len(buf[s])
  /\ \A i, j \in 1..Len(atomicList) :
       name[atomicList[i]] = name[atomicList[j]] => i = j

\* "a file on close will be either completely changed or completely unchanged"
\* (AtomicFile.cpp:4): a file holds all of what one session wrote, or what it
\* held at first.
AllOrNothing ==
  \A f \in File :
    \/ real[f].text = <<>>
    \/ \E s \in committed : FileOf[name[s]] = f /\ real[f].text = buf[s]

\* That is so, and the result of fcloseAtomic tells which of the two it is, and
\* an aborted session changes nothing, whichever call fails and whenever the
\* machine crashes, as long as fclose never frees a FILE and reports an error:
\* then the record that stays has a pointer fopen may give to another file, and
\* closing that one commits the work file of the first.
ChangedAsTold ==
  \/ freedByError
  \/ /\ AllOrNothing
     /\ \A s \in Session :
          /\ result[s] = "ok" => s \in committed
          /\ result[s] \in {"open", "failed", "aborted"} => s \notin committed

\* A session that appends keeps all that is in the file when it commits, with
\* two exceptions only: the real file could not be opened when it began, which
\* fopenAtomic takes for a file that is not there, or the file goes by two names
\* and a session under the other name, which find_by_realName does not see, was
\* committed in between.
AppendKeepsContent ==
  [][\A f \in File, s \in appends :
       /\ call.op = "rename" /\ call.rec = s /\ FileOf[name[s]] = f
       /\ result'[call.mine] = "ok"
       => \/ IsPrefix(real[f].text, real'[f].text)
          \/ s \in unread \cup overtaken]_vars
==============================================================================
