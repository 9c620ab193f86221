--------------------------------- MODULE ResMan ---------------------------------
(***************************************************************************)
(* The resource manager plugin (resman/NWNXResMan.cpp, HookDemandRes.cpp): *)
(* when the server demands a resource it gets what a subscriber of         *)
(* NWNX/ResMan/DemandResource gives, or a file that may change while the   *)
(* server runs, or what the server has itself.  resFiles tells which files *)
(* changed, by size and time of change.                                    *)
(*                                                                         *)
(* resFiles is a hash_map<const char*, CResFileInfo>: it looks for a path  *)
(* in the bucket of its characters, and compares pointers there.  The key  *)
(* is resPath, an array on the stack: another file's node is found when    *)
(* its path is in the same bucket and the server calls from the same       *)
(* depth, and the file's own is not when the depth is another, or when the *)
(* table grew.  The buckets, the depths and the growing are left open: a   *)
(* lookup may find any node, or none.                                      *)
(*                                                                         *)
(* A resource is known by its name and type, which are also its file's.    *)
(* The server is taken to look a resource up right before it demands it,   *)
(* as lastResRef needs.  Left out: the fields of CResStruct besides its    *)
(* data and size; files written while they are read.                       *)
(***************************************************************************)
EXTENDS Naturals, FiniteSetsExt

CONSTANTS
  Resource,     \* resources, and their files
  Total,        \* TotalResourceMemory
  Word,         \* FreeMemory is unsigned: it counts modulo Word
  MaxSize,      \* bound: sizes of files and data
  MaxTime,      \* bound: times of change
  MaxVersion    \* bound: files written

ASSUME ResManAssumption ==
  /\ IsFiniteSet(Resource)
  /\ Word \in Nat \ {0} /\ Total \in 0..(Word - 1)
  /\ MaxSize \in 0..Word /\ MaxTime \in Nat /\ MaxVersion \in Nat

VARIABLES
  file,        \* the file of each resource, or Absent
  resFiles,    \* the nodes of the table: their stamps and, as history, the resource
               \* whose file a stamp is of
  resource,    \* CResStruct: pResData and resSize
  FreeMemory,  \* of the server
  versions,    \* history: files written
  missed       \* history: the resource holds, or the cache vouches for, something that
               \* is not the file, and that no later load has replaced

resmanVars == <<file, resFiles, resource, FreeMemory, versions, missed>>

Absent == [version |-> 0, size |-> 0, mtime |-> 0]
Stamp(f) == [size |-> f.size, mtime |-> f.mtime]
Noted(r, stamp) == [of |-> r, stamp |-> stamp]

\* pResData: NULL, the server's own or a subscriber's data, or a version of the file.
Data(from, v) == [from |-> from, version |-> v]
NoData      == Data("NULL", 0)
FileData(v) == Data("file", v)
Holds(data, size) == [pResData |-> data, resSize |-> size]
NotLoaded == Holds(NoData, 0)

ResManInit ==
  /\ file = [r \in Resource |-> Absent]
  /\ resFiles = {}
  /\ resource = [r \in Resource |-> NotLoaded]
  /\ FreeMemory = Total
  /\ versions = 0
  /\ missed = [r \in Resource |-> FALSE]

HeldSizes == [r \in Resource |-> resource[r].resSize]
Size(S) == MapThenSumSet(LAMBDA r : HeldSizes[r], S)
Loaded == {r \in Resource : resource[r].pResData # NoData}
-------------------------------------------------------------------------------
(* Somebody changes the files: a version may have any size and time, even    *)
(* those of the version before.                                              *)

Save(r) ==
  /\ versions < MaxVersion
  /\ versions' = versions + 1
  /\ \E size \in 0..MaxSize, mtime \in 1..MaxTime :
       /\ file' = [file EXCEPT ![r] = [version |-> versions', size |-> size, mtime |-> mtime]]
       /\ missed' = [missed EXCEPT ![r] =
            @ \/ \E e \in resFiles : e.of = r /\ e.stamp = Stamp(file'[r])]
  /\ UNCHANGED <<resFiles, resource, FreeMemory>>

Remove(r) ==
  /\ file[r] # Absent
  /\ file' = [file EXCEPT ![r] = Absent]
  /\ UNCHANGED <<resFiles, resource, FreeMemory, versions, missed>>
-------------------------------------------------------------------------------
(* A demand.                                                                 *)

\* FreeChunk is called until there is enough memory or nothing left that the
\* server does not need: S is what it frees.
Frees(S, size) ==
  /\ S \subseteq Loaded
  /\ \/ S = {} /\ FreeMemory >= size
     \/ FreeMemory < size /\ FreeMemory + Size(S) < size
     \/ \E r \in S : FreeMemory + Size(S \ {r}) < size /\ FreeMemory + Size(S) >= size

\* Mutant of Taken: what the resource held before is not given back.
TakenAnew(free, before, size) == (free + Word - size) % Word

Taken(free, before, size) == (free + before + Word - size) % Word

\* The resource gets data, in place of what it holds unless that was freed now.
Install(r, data, size) ==
  \E S \in SUBSET Loaded :
    /\ Frees(S, size)
    /\ LET kept == IF r \in S THEN 0 ELSE resource[r].resSize
       IN  FreeMemory' = Taken(FreeMemory + Size(S), kept, size)
    /\ resource' = [x \in Resource |->
         CASE x = r -> Holds(data, size)
           [] x # r /\ x \in S -> NotLoaded
           [] OTHER -> resource[x]]

\* DemandRes_orig: the server answers with what the resource holds, or loads its
\* own, if it has it.
DemandRes_orig(r) ==
  \/ UNCHANGED <<resource, FreeMemory>>
  \/ /\ r \notin Loaded
     /\ \E size \in 1..MaxSize :
          /\ size <= FreeMemory
          /\ resource' = [resource EXCEPT ![r] = Holds(Data("server", 0), size)]
          /\ FreeMemory' = FreeMemory - size

-------------------------------------------------------------------------------
(* resFiles.                                                                 *)

\* Mutant of Unchanged: only the size is compared.
SameSize(e, r) == e.stamp.size = file[r].size

\* "The file has not been changed."
Unchanged(e, r) == e.stamp = Stamp(file[r])

\* The lookup finds a node that says so.
SeenUnchanged(r) == (\E e \in resFiles : Unchanged(e, r)) /\ UNCHANGED resFiles

\* The stamp is noted: in a new node when none was found; in the one that was when it
\* says otherwise; in any that operator[] finds in a table it has grown.
NoteStamp(r) ==
  \E found \in {{}} \cup {{e} : e \in resFiles} :
    resFiles' = (resFiles \ found) \cup {Noted(r, Stamp(file[r]))}

\* A subscriber gives data: the file is not looked at.
DemandFromSubscriber(r) ==
  /\ \E size \in 1..MaxSize : Install(r, Data("subscriber", 0), size)
  /\ missed' = [missed EXCEPT ![r] = TRUE]
  /\ UNCHANGED <<file, resFiles, versions>>

\* There is no file, or a subscriber declines for the plugin.
DemandFromServer(r) ==
  /\ DemandRes_orig(r)
  /\ missed' = [missed EXCEPT ![r] = @ \/ resource'[r] # resource[r]]
  /\ UNCHANGED <<file, resFiles, versions>>

\* "Skipping...": the server answers with what the resource holds.
DemandUnchanged(r) ==
  /\ file[r] # Absent
  /\ r \in Loaded /\ SeenUnchanged(r)
  /\ UNCHANGED <<file, resource, FreeMemory, versions, missed>>

\* The file's stamp is noted, unless it is; then the file is loaded, or cannot be
\* opened or is empty, and the server answers.
DemandFromFile(r) ==
  /\ file[r] # Absent
  /\ NoteStamp(r) \/ (r \notin Loaded /\ SeenUnchanged(r))
  /\ \/ /\ file[r].size > 0
        /\ Install(r, FileData(file[r].version), file[r].size)
        /\ missed' = [missed EXCEPT ![r] = FALSE]
     \/ /\ DemandRes_orig(r)
        /\ missed' = [missed EXCEPT ![r] = TRUE]
  /\ UNCHANGED <<file, versions>>

\* The server frees a resource it does not need.
Free(r) ==
  /\ r \in Loaded
  /\ resource' = [resource EXCEPT ![r] = NotLoaded]
  /\ FreeMemory' = (FreeMemory + resource[r].resSize) % Word
  /\ UNCHANGED <<file, resFiles, versions, missed>>

ResManNext ==
  \E r \in Resource :
    \/ Save(r) \/ Remove(r) \/ Free(r)
    \/ DemandFromSubscriber(r) \/ DemandFromServer(r)
    \/ DemandUnchanged(r) \/ DemandFromFile(r)

ResManSpec == ResManInit /\ [][ResManNext]_resmanVars
-------------------------------------------------------------------------------
ResManTypeOK ==
  /\ file \in [Resource -> [version : 0..versions, size : 0..MaxSize, mtime : 0..MaxTime]]
  /\ resFiles \subseteq
       [of : Resource, stamp : [size : 0..MaxSize, mtime : 0..MaxTime]]
  /\ resource \in [Resource ->
       [pResData : [from : {"NULL", "server", "subscriber", "file"}, version : 0..versions],
        resSize : 0..MaxSize]]
  /\ FreeMemory \in 0..(Word - 1)
  /\ versions \in 0..MaxVersion
  /\ missed \in [Resource -> BOOLEAN]

\* Whatever node a lookup finds, when it says that a resource's file has not changed
\* the resource holds what is in the file: unless the stamp found was noted for
\* another file, whose path is in the same bucket; or the file could not be loaded, a
\* subscriber or the server gave other data since it was, or it was written with the
\* size and time of a stamp of it that is still noted, from this depth or another.
CachedFileIsHeld ==
  \A r \in Loaded : \A e \in resFiles :
    file[r] # Absent /\ Unchanged(e, r) =>
      \/ resource[r].pResData = FileData(file[r].version)
      \/ e.of # r
      \/ missed[r]

\* Free memory and what resources hold add up to all there is, as unsigned
\* numbers do: when too little could be freed FreeMemory has wrapped around, and
\* what is given back later makes it right again.
MemoryAddsUp == (FreeMemory + Size(Resource)) % Word = Total
===============================================================================
