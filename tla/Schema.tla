-------------------------------- MODULE Schema --------------------------------
(***************************************************************************)
(* How a schema crosses into the extension module.  Python walks the       *)
(* imports of the files in use and sends them as one FileDescriptorSet     *)
(* (_schema.py); C++ builds the files in the order they arrive, each       *)
(* against those built before it, and looks up what it was asked for       *)
(* (BuildSchema, FindDescriptor and SbeCodec::Create in module.cc).        *)
(*                                                                         *)
(* A file object belongs to a Python descriptor pool, in which its name is *)
(* unique; sbe.Codec takes any list of files, from any pools.  The *_bytes *)
(* functions skip the walk: their callers bring a set of their own.        *)
(***************************************************************************)
EXTENDS Naturals, Sequences

CONSTANTS File,     \* FileDescriptor objects
          Name,     \* file names
          NameOf,   \* file -> its name
          PoolOf,   \* file -> the descriptor pool that holds it
          Rank,     \* file -> a number above those of its dependencies'
          Imports,  \* the import graphs: file -> its dependencies, in order
          MaxFiles  \* bound on the files passed to one call

(* What a descriptor pool guarantees of its files; MaxFiles is a bound.    *)
ASSUME PoolAssumption ==
    /\ NameOf \in [File -> Name]
    /\ Rank \in [File -> Nat]
    /\ MaxFiles \in Nat
    /\ \A f, g \in File : PoolOf[f] = PoolOf[g] /\ NameOf[f] = NameOf[g] => f = g
    /\ Imports \subseteq [File -> Seq(File)]
    /\ \A deps \in Imports : \A f \in File : \A i \in DOMAIN deps[f] :
         PoolOf[deps[f][i]] = PoolOf[f] /\ Rank[deps[f][i]] < Rank[f]

VARIABLES deps,     \* file -> its dependencies (fd.dependencies)
          api,      \* "message": a message type; "codec": sbe.Codec;
                    \* "bytes": a message type and the caller's own set
          files,    \* the files the call starts from
          pc,       \* the stage of the call
          todo,     \* the files still to be walked
          stack,    \* the calls of walk: a file and its next dependency
          visited,  \* the names walk has finished with
          order,    \* the files of the set, in order
          built,    \* how many of them C++ has built
          selected, \* the C++ files found under the names asked for
          outcome

vars == <<deps, api, files, pc, todo, stack, visited, order, built, selected, outcome>>

request == <<deps, api, files>>
walking == <<todo, stack, visited, order>>
native == <<built, selected>>

Frame == [file : File, dep : Nat \ {0}]
OnePool == \A i, j \in DOMAIN files : PoolOf[files[i]] = PoolOf[files[j]]

(* The files C++ has once it took n of the set.  Two of one name among     *)
(* them have the same content: C++ has that once, and they stand for it.   *)
Known(n) == {order[i] : i \in 1 .. n}
NamesOf(fs) == {NameOf[f] : f \in fs}

Outcome == {"none", "noFiles", "badSet", "badLimit", "buildFailed", "notFound",
            "codecRefused", "ok"}

Init ==
    /\ deps \in Imports
    /\ \/ api \in {"message", "bytes"} /\ files \in [{1} -> File]
       \/ api = "codec" /\ files \in UNION {[1 .. n -> File] : n \in 0 .. MaxFiles}
    /\ pc = "start"
    /\ todo = files
    /\ stack = <<>>
    /\ visited = {}
    /\ order = <<>>
    /\ built = 0
    /\ selected = <<>>
    /\ outcome = "none"

End(how) == pc' = "done" /\ outcome' = how

(* sbe.Codec refuses an empty list before it walks anything.               *)
Start ==
    /\ pc = "start"
    /\ api # "bytes"
    /\ \/ files = <<>> /\ End("noFiles")
       \/ files # <<>> /\ pc' = "walk" /\ UNCHANGED outcome
    /\ UNCHANGED <<request, walking, native>>

(* The caller's own set: any files in any order, or bytes that are no set. *)
Bring ==
    /\ pc = "start"
    /\ api = "bytes"
    /\ \/ /\ order' \in UNION {[1 .. n -> File] : n \in 0 .. MaxFiles}
          /\ pc' = "build"
          /\ UNCHANGED outcome
       \/ /\ End("badSet")
          /\ UNCHANGED order
    /\ UNCHANGED <<request, todo, stack, visited, native>>

(* Variants: no visited check; dependencies counted from 0. *)
WalkRevisits(s, f) == Append(s, [file |-> f, dep |-> 1])
WalkFromZero(s, f) == IF NameOf[f] \in visited THEN s
                      ELSE Append(s, [file |-> f, dep |-> 0])

(* walk(f): nothing when a file of that name is done, else a new frame.    *)
Walk(s, f) == IF NameOf[f] \in visited THEN s
              ELSE Append(s, [file |-> f, dep |-> 1])

(* Variant: the files are walked from the last to the first. *)
WalkFileBackwards ==
    /\ pc = "walk"
    /\ stack = <<>>
    /\ todo # <<>>
    /\ stack' = Walk(<<>>, todo[Len(todo)])
    /\ todo' = SubSeq(todo, 1, Len(todo) - 1)
    /\ UNCHANGED <<request, pc, visited, order, native, outcome>>

(* for f in files: walk(f) *)
WalkFile ==
    /\ pc = "walk"
    /\ stack = <<>>
    /\ todo # <<>>
    /\ stack' = Walk(<<>>, Head(todo))
    /\ todo' = Tail(todo)
    /\ UNCHANGED <<request, pc, visited, order, native, outcome>>

Top == stack[Len(stack)]

(* Variant: the same dependency is walked over and over. *)
WalkDepStays ==
    /\ pc = "walk"
    /\ stack # <<>>
    /\ Top.dep <= Len(deps[Top.file])
    /\ stack' = Walk(stack, deps[Top.file][Top.dep])
    /\ UNCHANGED <<request, pc, todo, visited, order, native, outcome>>

(* for dep in fd.dependencies: walk(dep) *)
WalkDep ==
    /\ pc = "walk"
    /\ stack # <<>>
    /\ Top.dep <= Len(deps[Top.file])
    /\ stack' = Walk([stack EXCEPT ![Len(stack)].dep = @ + 1],
                     deps[Top.file][Top.dep])
    /\ UNCHANGED <<request, pc, todo, visited, order, native, outcome>>

(* Variant: a file is appended before its dependencies are walked. *)
EmitEarly ==
    /\ pc = "walk"
    /\ stack # <<>>
    /\ visited' = visited \union {NameOf[Top.file]}
    /\ order' = Append(order, Top.file)
    /\ stack' = SubSeq(stack, 1, Len(stack) - 1)
    /\ UNCHANGED <<request, pc, todo, native, outcome>>

(* visited[fd.name] = fd; order.append(fd) *)
Emit ==
    /\ pc = "walk"
    /\ stack # <<>>
    /\ Top.dep > Len(deps[Top.file])
    /\ visited' = visited \union {NameOf[Top.file]}
    /\ order' = Append(order, Top.file)
    /\ stack' = SubSeq(stack, 1, Len(stack) - 1)
    /\ UNCHANGED <<request, pc, todo, native, outcome>>

(* Variant: only the first of the files is walked. *)
SendFirstOnly ==
    /\ pc = "walk"
    /\ stack = <<>>
    /\ order # <<>>
    /\ pc' = "build"
    /\ UNCHANGED <<request, walking, native, outcome>>

(* The set is complete and is handed to C++; SbeCodec::Create looks at its *)
(* limits before the schema.                                               *)
Send ==
    /\ pc = "walk"
    /\ stack = <<>>
    /\ todo = <<>>
    /\ \/ pc' = "build" /\ UNCHANGED outcome
       \/ api = "codec" /\ End("badLimit")
    /\ UNCHANGED <<request, walking, native>>

(* BuildFile: the imports must be in the pool under their names, and the   *)
(* file's own name must not be.  A file built against another pool's file  *)
(* of the same name may or may not find in it what it uses.                *)
Builds(f) ==
    /\ NameOf[f] \notin NamesOf(Known(built))
    /\ \A i \in DOMAIN deps[f] : NameOf[deps[f][i]] \in NamesOf(Known(built))

Resolves(f) == \A i \in DOMAIN deps[f] : deps[f][i] \in Known(built)

(* BuildFile of a name that is there gives back the file that is, if the   *)
(* two are identical: the same file again is, another pool's may be.       *)
Repeats(f) == NameOf[f] \in NamesOf(Known(built))

BuildFile ==
    /\ pc = "build"
    /\ built < Len(order)
    /\ LET f == order[built + 1] IN
       \/ /\ Builds(f) \/ Repeats(f)
          /\ built' = built + 1
          /\ UNCHANGED <<pc, outcome>>
       \/ /\ f \notin Known(built)
          /\ ~(Builds(f) /\ Resolves(f))
          /\ End("buildFailed")
          /\ UNCHANGED built
    /\ UNCHANGED <<request, walking, selected>>

(* FindFileByName for each file asked for, by name; a message type is      *)
(* looked up by its own name and found if its file was built.              *)
Find ==
    /\ pc = "build"
    /\ built = Len(order)
    /\ \/ /\ api = "codec"
          /\ \A i \in DOMAIN files : NameOf[files[i]] \in NamesOf(Known(built))
          /\ selected' = [i \in DOMAIN files |->
                 CHOOSE f \in Known(built) : NameOf[f] = NameOf[files[i]]]
          /\ End("ok") \/ End("codecRefused")
       \/ /\ api # "codec"
          /\ files[1] \in Known(built)
          /\ selected' = files
          /\ End("ok")
       \/ /\ \E i \in DOMAIN files :
               \/ NameOf[files[i]] \notin NamesOf(Known(built))
               \/ api # "codec" /\ files[i] \notin Known(built)
          /\ End("notFound")
          /\ UNCHANGED selected
    /\ UNCHANGED <<request, walking, built>>

Next == Start \/ Bring \/ WalkFile \/ WalkDep \/ Emit \/ Send \/ BuildFile \/ Find

Spec == Init /\ [][Next]_vars

(* One thread, no waiting: a step that can be taken is taken. *)
FairSpec == Spec /\ WF_vars(Next)
-------------------------------------------------------------------------------
(* Type invariant. *)
TypeOK ==
    /\ deps \in Imports
    /\ api \in {"message", "codec", "bytes"}
    /\ files \in Seq(File)
    /\ pc \in {"start", "walk", "build", "done"}
    /\ todo \in Seq(File)
    /\ stack \in Seq(Frame)
    /\ visited \in SUBSET Name
    /\ order \in Seq(File)
    /\ built \in 0 .. Len(order)
    /\ pc = "start" => built = 0
    /\ selected \in Seq(File)
    /\ outcome \in Outcome

(* _schema.py:20-21: files are emitted in dependency order, so that the    *)
(* files a file imports precede it, by the names C++ resolves them under.  *)
DependencyFirst ==
    api # "bytes" =>
    \A i \in DOMAIN order : \A k \in DOMAIN deps[order[i]] :
        \E j \in 1 .. i - 1 : NameOf[order[j]] = NameOf[deps[order[i]][k]]

(* No name is sent twice, which BuildFile refuses unless the two files are *)
(* identical: the check on visited is made on entry to walk, long before   *)
(* the name is added.                                                      *)
NoDuplicateNames ==
    api # "bytes" =>
    \A i, j \in DOMAIN order : NameOf[order[i]] = NameOf[order[j]] => i = j

(* With the files of one pool the walk never sends a set that C++ refuses  *)
(* to build or that lacks a file asked for, and what C++ selects is what   *)
(* the caller passed, file by file.                                        *)
OnePoolSucceeds ==
    OnePool /\ api # "bytes" =>
        /\ outcome \notin {"buildFailed", "notFound"}
        /\ outcome = "ok" => selected = files

(* Files of several pools may share a name, and walk and C++ go by names:  *)
(* a codec (sbe.py:95-102) has another pool's file in place of one that    *)
(* was passed only if a file passed before it came from that pool.         *)
FirstPassedWins ==
    api = "codec" /\ outcome = "ok" =>
        \A i \in DOMAIN files :
            \/ selected[i] = files[i]
            \/ \E j \in 1 .. i - 1 : PoolOf[files[j]] = PoolOf[selected[i]]

(* The walk and the build end. *)
Ends == <>(pc = "done")
===============================================================================
