------------------------------- MODULE HttpFiles -------------------------------
(***************************************************************************)
(* Files of mounted directories: the way of a request from its target,     *)
(* which decode_path_component decodes, to handle_file_request, which asks *)
(* is_valid_path before it opens anything; and the operating system, which *)
(* reads the name of the file for itself.                                  *)
(***************************************************************************)
EXTENDS HttpText

CONSTANTS
  Targets,     \* targets of requests
  MountPoints  \* those of base_dirs_, in their order

ASSUME FilesAssumption ==
  /\ Targets \subseteq Seq(0 .. 255)
  /\ MountPoints \in Seq(Seq(0 .. 255))

VARIABLES
  target,   \* the target of the request
  stage,    \* "decode", "mounts", "check", "open", "answered" or "unrouted"
  path,     \* req.path, as far as it is decoded
  at,       \* where the loop over what is read is
  entry,    \* which mount point is looked at
  subPath,  \* the path below the mount point
  level,    \* of is_valid_path
  file,     \* the name that is opened, after that of the directory
  depth     \* how far below the directory the system is, as far as it read the name

filesVars == <<target, stage, path, at, entry, subPath, level, file, depth>>

IndexHtml == <<105, 110, 100, 101, 120, Dot, 104, 116, 109, 108>>
DotDot == <<Dot, Dot>>

------------------------------------------------------------------------------
FilesInit ==
  /\ target \in Targets
  /\ stage = "decode" /\ path = <<>> /\ at = 1
  /\ entry = 1 /\ subPath = <<>> /\ level = 0
  /\ file = <<>> /\ depth = 0

(* parse_request_line: the target without fragment and query is decoded.   *)
Coded == Divide(Divide(target, Hash)[1], Question)[1]

DecodeTarget ==
  /\ stage = "decode" /\ at <= Len(Coded)
  /\ path' = path \o PathCode(Coded, at).bytes
  /\ at' = PathCode(Coded, at).next
  /\ UNCHANGED <<target, stage, entry, subPath, level, file, depth>>

BeginMounts ==
  /\ stage = "decode" /\ at > Len(Coded)
  /\ stage' = "mounts"
  /\ UNCHANGED <<target, path, at, entry, subPath, level, file, depth>>

(* The loop of handle_file_request                                         *)
NextMount ==
  /\ stage' = "mounts"
  /\ entry' = entry + 1
  /\ UNCHANGED <<target, path, at, subPath, level, file, depth>>

SkipMount ==
  /\ stage = "mounts" /\ entry <= Len(MountPoints)
  /\ ~ IsPrefix(MountPoints[entry], path)
  /\ NextMount

EnterMount ==
  /\ stage = "mounts" /\ entry <= Len(MountPoints)
  /\ IsPrefix(MountPoints[entry], path)
  /\ subPath' = <<Slash>> \o Rest(path, Len(MountPoints[entry]) + 1)
  /\ stage' = "check" /\ at' = 1 /\ level' = 0
  /\ UNCHANGED <<target, path, entry, file, depth>>

EndMounts ==
  /\ stage = "mounts" /\ entry > Len(MountPoints)
  /\ stage' = "unrouted"
  /\ UNCHANGED <<target, path, at, entry, subPath, level, file, depth>>

------------------------------------------------------------------------------
(* A component of text that begins at i ends before k.                     *)
EndsAt(text, i, k, stops) ==
  /\ k \in i + 1 .. Len(text) + 1
  /\ \A j \in i .. k - 1 : text[j] \notin stops
  /\ k \in DOMAIN text => text[k] \in stops

Forbidden(component) == \E k \in DOMAIN component : component[k] \in {0, Backslash}

(* Mutation: the level is compared after it was lowered.                   *)
Leaves_Late(component, l) == component = DotDot /\ l + 1 = 0

Leaves(component, l) == component = DotDot /\ l = 0

Below(component, l) ==
  CASE component = <<Dot>> -> l
    [] component = DotDot -> l - 1
    [] OTHER -> l + 1

(* is_valid_path *)
SkipSlash ==
  /\ stage = "check" /\ at <= Len(subPath) /\ subPath[at] = Slash
  /\ at' = at + 1
  /\ UNCHANGED <<target, stage, path, entry, subPath, level, file, depth>>

ReadComponent ==
  /\ stage = "check" /\ at <= Len(subPath)
  /\ \E k \in at + 1 .. Len(subPath) + 1 :
       LET component == SubSeq(subPath, at, k - 1)
       IN  /\ EndsAt(subPath, at, k, {Slash})
           /\ ~ Forbidden(component) /\ ~ Leaves(component, level)
           /\ level' = Below(component, level)
           /\ at' = k
  /\ UNCHANGED <<target, stage, path, entry, subPath, file, depth>>

RejectPath ==
  /\ stage = "check" /\ at <= Len(subPath)
  /\ \E k \in at + 1 .. Len(subPath) + 1 :
       LET component == SubSeq(subPath, at, k - 1)
       IN  /\ EndsAt(subPath, at, k, {Slash})
           /\ Forbidden(component) \/ Leaves(component, level)
  /\ NextMount

AcceptPath ==
  /\ stage = "check" /\ at > Len(subPath)
  /\ file' = IF Last(subPath) = Slash THEN subPath \o IndexHtml ELSE subPath
  /\ stage' = "open" /\ at' = 1 /\ depth' = 0
  /\ UNCHANGED <<target, path, entry, subPath, level>>

------------------------------------------------------------------------------
(* The operating system reads the name up to its end or to a zero byte.    *)
NameEnds == at \in DOMAIN file => file[at] = 0

WalkSlash ==
  /\ stage = "open" /\ ~ NameEnds /\ file[at] = Slash
  /\ at' = at + 1
  /\ UNCHANGED <<target, stage, path, entry, subPath, level, file, depth>>

WalkComponent ==
  /\ stage = "open" /\ ~ NameEnds
  /\ \E k \in at + 1 .. Len(file) + 1 :
       /\ EndsAt(file, at, k, {Slash, 0})
       /\ depth' = Below(SubSeq(file, at, k - 1), depth)
       /\ at' = k
  /\ UNCHANGED <<target, stage, path, entry, subPath, level, file>>

(* What it finds there is a directory, to which the client is redirected,  *)
(* or a file, which is served.                                             *)
Found ==
  /\ stage = "open" /\ NameEnds
  /\ stage' = "answered"
  /\ UNCHANGED <<target, path, at, entry, subPath, level, file, depth>>

NotFound == stage = "open" /\ NameEnds /\ NextMount

(* A file that cannot be mapped is left to the handlers.                   *)
NotOpened ==
  /\ stage = "open" /\ NameEnds
  /\ stage' = "unrouted"
  /\ UNCHANGED <<target, path, at, entry, subPath, level, file, depth>>

FilesNext ==
  \/ DecodeTarget \/ BeginMounts
  \/ SkipMount \/ EnterMount \/ EndMounts
  \/ SkipSlash \/ ReadComponent \/ RejectPath \/ AcceptPath
  \/ WalkSlash \/ WalkComponent \/ Found \/ NotFound \/ NotOpened

FilesSpec == FilesInit /\ [][FilesNext]_filesVars

------------------------------------------------------------------------------
(* However dots and slashes are encoded in the target of a request, the    *)
(* file that is opened for it lies below the mounted directory: reading    *)
(* its name, the system never leaves that directory on the way.            *)
FilesStayInside == stage \in {"open", "answered"} => depth >= 0
==============================================================================
