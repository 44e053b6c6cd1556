------------------------------ MODULE FileTools ------------------------------
(***************************************************************************)
(* FilesystemService with the file tools in front of it.  A tree maps the  *)
(* paths that exist to Dir or to the contents of a file; a path is the     *)
(* sequence of its names.  Links are left out, so that resolving a path is *)
(* dropping its dot segments.                                              *)
(*                                                                         *)
(* Tools run on threads of the pool, so another one may change the tree    *)
(* between the checks of an operation and its effect: the checks see the   *)
(* tree "seen", the effect meets the tree "now", and an operation that     *)
(* refuses or fails leaves "now" as it is.                                 *)
(***************************************************************************)
EXTENDS Naturals, Sequences

Dir == "directory"
Up  == ".."

Exists(t, p) == p \in DOMAIN t
IsDir(t, p)  == Exists(t, p) /\ t[p] = Dir
IsFile(t, p) == Exists(t, p) /\ t[p] # Dir

Parent(p)    == SubSeq(p, 1, Len(p) - 1)
Within(p, q) == Len(p) <= Len(q) /\ \A i \in 1 .. Len(p) : q[i] = p[i]
Below(t, p)  == {q \in DOMAIN t : Within(p, q)}
Keep(t, S)   == [q \in S |-> t[q]]

\* Whatever exists, but for the topmost directory, is in a directory.
WellFormed(t) ==
    /\ IsDir(t, << >>)
    /\ \A q \in DOMAIN t : q # << >> => IsDir(t, Parent(q))

------------------------------------------------------------------------------
\* FilesystemResolver.resolve: the first name of a relative path may be that of
\* another root, and a root without that name is the workspace.
Normal(p) ==
    LET upTo[k \in 0 .. Len(p)] ==
            IF k = 0 THEN << >>
            ELSE IF p[k] # Up THEN Append(upTo[k - 1], p[k])
            ELSE IF upTo[k - 1] = << >> THEN << >> ELSE Parent(upTo[k - 1])
    IN  upTo[Len(p)]

Target(roots, r) ==
    Normal(IF r.absolute THEN r.path
           ELSE IF r.path # << >> /\ Head(r.path) \in DOMAIN roots
                THEN roots[Head(r.path)] \o Tail(r.path)
                ELSE roots[IF r.root \in DOMAIN roots THEN r.root ELSE "workspace"] \o r.path)

\* What resolve accepts; the operations refuse an empty path themselves.
Permitted(roots, r) ==
    r.path # << >> /\ \E name \in DOMAIN roots : Within(roots[name], Target(roots, r))

\* A move or a deletion looks up the root of the request, fails when there is
\* none of that name, and refuses the root itself.
NotTheRoot(roots, r) ==
    r.root \in DOMAIN roots /\ Target(roots, r) # roots[r.root]

------------------------------------------------------------------------------
\* mkdir(parents=True, exist_ok=True) with what may stand in its way.
Ancestors(p) == {SubSeq(p, 1, k) : k \in 0 .. Len(p)}
MkDir(t, p) ==
    IF \E q \in Ancestors(p) : IsFile(t, q) THEN t
    ELSE [q \in DOMAIN t \union Ancestors(p) |-> IF q \in DOMAIN t THEN t[q] ELSE Dir]

CreateDirectory(seen, now, p) == IF Exists(seen, p) THEN now ELSE MkDir(now, p)

\* A temporary file in the directory of the target replaces the target.
WriteText(seen, now, p, content) ==
    IF IsDir(seen, p) \/ ~ IsDir(seen, Parent(p)) \/ IsDir(now, p) \/ ~ IsDir(now, Parent(p))
    THEN now
    ELSE [q \in DOMAIN now \union {p} |-> IF q = p THEN content ELSE now[q]]

\* The tree with all that is below src at dst.
Rebased(q, src, dst) == dst \o SubSeq(q, Len(src) + 1, Len(q))
Relocate(t, src, dst) ==
    [q \in (DOMAIN t \ Below(t, src)) \union {Rebased(s, src, dst) : s \in Below(t, src)} |->
        IF Within(dst, q) THEN t[Rebased(q, dst, src)] ELSE t[q]]

\* shutil.move puts the source into a destination that is a directory by now,
\* replaces a file by a file, and makes the parents of a directory's destination.
Rename(t, src, dst) ==
    LET dest == IF IsDir(t, dst) THEN Append(dst, src[Len(src)]) ELSE dst IN
    IF ~ Exists(t, src) \/ Within(src, dest) \/ (IsDir(t, dst) /\ Exists(t, dest)) THEN t
    ELSE IF IsFile(t, src)
         THEN IF IsDir(t, Parent(dest)) THEN Relocate(t, src, dest) ELSE t
    ELSE IF Exists(t, dest) \/ (\E q \in Ancestors(dest) : IsFile(t, q)) THEN t
    ELSE Relocate(MkDir(t, Parent(dest)), src, dest)

MovePath(seen, now, src, dst) ==
    IF ~ Exists(seen, src) \/ Exists(seen, dst) \/ ~ IsDir(seen, Parent(dst)) THEN now
    ELSE Rename(now, src, dst)

\* unlink, rmdir or rmtree, as the checks found it; rmdir wants it empty.
DeletePath(seen, now, p, recursive) ==
    IF \/ IsFile(seen, p) /\ IsFile(now, p)
       \/ IsDir(seen, p) /\ IsDir(now, p) /\ (recursive \/ Below(now, p) = {p})
    THEN Keep(now, DOMAIN now \ Below(now, p))
    ELSE now

\* A request as the tools make it, against the roots of the policy; create_file
\* writes the empty text.
Result(roots, seen, now, r) ==
    IF ~ Permitted(roots, r) THEN now
    ELSE LET p == Target(roots, r) IN
    CASE r.op = "create_directory" -> CreateDirectory(seen, now, p)
      [] r.op = "write_text_file"  -> WriteText(seen, now, p, r.content)
      [] r.op = "delete_path" ->
            IF NotTheRoot(roots, r) THEN DeletePath(seen, now, p, r.recursive) ELSE now
      [] r.op = "move_path" ->
            IF NotTheRoot(roots, r) /\ Permitted(roots, r.to) /\ NotTheRoot(roots, r.to)
            THEN MovePath(seen, now, p, Target(roots, r.to)) ELSE now

------------------------------------------------------------------------------
\* No operation breaks the tree, whatever came between its checks and its effect.
KeepsTheTree(roots, seen, now, r) == WellFormed(Result(roots, seen, now, r))

\* What an operation may touch: the directories on the way to the target and the
\* target; a move its two places; only a recursive deletion more than one entry.
TouchesItsTarget(roots, seen, now, r) ==
    LET p == Target(roots, r)
        t == Result(roots, seen, now, r)
        lost == {q \in DOMAIN now : q \notin DOMAIN t \/ t[q] # now[q]} IN
    CASE r.op = "create_directory" -> lost = {} /\ DOMAIN t \subseteq DOMAIN now \union Ancestors(p)
      [] r.op = "write_text_file"  -> lost \subseteq {p} /\ DOMAIN t \subseteq DOMAIN now \union {p}
      [] r.op = "delete_path" ->
            /\ lost \subseteq Below(now, p) /\ DOMAIN t \subseteq DOMAIN now
            /\ r.recursive \/ lost \subseteq {p}
            /\ lost # {} => IsDir(seen, p) = IsDir(now, p)
      [] r.op = "move_path" ->
            lost \subseteq Below(now, p) \union {Target(roots, r.to)}

\* Every file below the source of a move is in the tree afterwards, below the
\* destination or where it was, also when the move fails or meets another one.
MoveKeepsFiles(roots, seen, now, r) ==
    r.op = "move_path" =>
        LET src == Target(roots, r)
            dst == Target(roots, r.to)
            t   == Result(roots, seen, now, r) IN
        \/ t = now
        \/ \E dest \in {dst, Append(dst, src[Len(src)])} :
            \A q \in Below(now, src) :
                Exists(t, Rebased(q, src, dest)) /\ t[Rebased(q, src, dest)] = now[q]

\* The root that a request names stays a directory, as long as it contains the
\* target: an absolute path or the name of another root leads elsewhere.
NamedRootStays(roots, seen, now, r) ==
    (r.root \in DOMAIN roots /\ IsDir(now, roots[r.root]) /\ Within(roots[r.root], Target(roots, r)))
    => IsDir(Result(roots, seen, now, r), roots[r.root])
==============================================================================
