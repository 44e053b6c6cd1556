---------------------------- MODULE DesktopControl ----------------------------
(***************************************************************************)
(* What the desktop tools do to windows, keyboard and mouse: DesktopPolicy *)
(* (what may be sent), DesktopService (which window is meant), and the     *)
(* Windows backend (the events a call becomes).                            *)
(*                                                                         *)
(* A desktop is [alive, visible: sets of handles; title, process, owner:   *)
(* functions of a handle; front: the handle in front, or None].  A window's*)
(* id is a digest of its handle, so a registry is the set of the handles   *)
(* that have been seen and not been found dead.  Tools run beside the      *)
(* user, so a call meets several desktops, one after the other.            *)
(***************************************************************************)
LOCAL INSTANCE Integers
LOCAL INSTANCE FiniteSets
LOCAL INSTANCE Sequences
LOCAL INSTANCE SequencesExt
LOCAL INSTANCE FiniteSetsExt
LOCAL INSTANCE NameLookup

------------------------------------------------------------------------------
(* The policy.  Names of keys are in lower case, without blanks around.    *)

AllowedKeys ==
    {"enter", "tab", "escape", "backspace", "delete", "up", "down", "left", "right",
     "home", "end", "pageup", "pagedown"}
AllowedHotkeys ==
    {<<"ctrl", k>> : k \in {"c", "v", "x", "z", "y", "a", "s", "f", "n", "o"}} \union {<<"alt", "f4">>}

Canonical(keys) == [i \in DOMAIN keys |-> IF keys[i] = "control" THEN "ctrl" ELSE keys[i]]
HotkeyAllowed(keys) ==
    /\ keys # << >> /\ "" \notin ToSet(keys)
    /\ Cardinality(ToSet(Canonical(keys))) = Len(keys)
    /\ Canonical(keys) \in AllowedHotkeys

\* Of coordinates, true and false are not integers here.
TextAllowed(text, max)  == text.type = "string" /\ ~ text.nul /\ text.length <= max
PointAllowed(x, y, size) ==
    /\ x.type = "integer" /\ y.type = "integer"
    /\ x.number \in 0 .. size.width - 1 /\ y.number \in 0 .. size.height - 1
ButtonAllowed(button) == button \in {"left", "right"}

------------------------------------------------------------------------------
(* The service: which windows there are, and which one a reference means.  *)

\* The handles of dead windows are forgotten before the visible ones are listed,
\* in the order of their titles, without the application's own and up to a limit.
Listed(desktop, own, limit) ==
    LET shown == {h \in desktop.visible : desktop.owner[h] # own}
        Before(g, h) == \/ desktop.rank[g] < desktop.rank[h]
                        \/ desktop.rank[g] = desktop.rank[h] /\ g < h
        sorted == SetToSortSeq(shown, Before)
    IN  ToSet(SubSeq(sorted, 1, Min({limit, Len(sorted)})))
AfterListing(registry, desktop, own) ==
    (registry \intersect desktop.alive) \union {h \in desktop.visible : desktop.owner[h] # own}

\* A reference is the id of a window, or a query for its title or process, which
\* counts when one window answers to it.
ById(registry, ref) == {h \in registry : ref.kind = "id" /\ ref.handle = h}
ByName(desktop, own, limit, ref) ==
    IF ref.kind = "id" THEN {}
    ELSE {w.handle : w \in ResolveWindow(
             {[handle |-> h, title |-> desktop.title[h], process |-> desktop.process[h]] :
                 h \in Listed(desktop, own, limit)}, ref.query)}
Meant(registry, desktop, own, limit, ref) ==
    IF ById(registry, ref) # {} THEN ById(registry, ref) ELSE ByName(desktop, own, limit, ref)

\* What the user who approves a change of focus is shown.
ShownForApproval(registry, desktop, own, limit, ref) ==
    LET meant == Meant(registry, desktop, own, limit, ref) \intersect desktop.alive IN
    IF Cardinality(Meant(registry, desktop, own, limit, ref)) = 1 THEN meant ELSE {}

\* focus_window: resolved and checked against "desktop", tried, which the system
\* accepts or not, and verified against "after", the desktop a moment later.
FocusWindow(registry, desktop, after, own, limit, ref) ==
    LET meant == Meant(registry, desktop, own, limit, ref)
        h     == CHOOSE g \in meant : TRUE IN
    CASE Cardinality(meant) > 1 -> [status |-> "ambiguous"]
      [] meant = {} -> [status |-> "unknown"]
      [] OTHER ->
            IF h \notin desktop.alive THEN [status |-> "stale"]
            ELSE IF h \notin desktop.visible THEN [status |-> "hidden"]
            ELSE IF ~ after.accepted \/ after.front # h THEN [status |-> "failed"]
            ELSE [status |-> "focused", window |-> h]

------------------------------------------------------------------------------
(* The backend: the events a key, a hotkey, a text and a click become.     *)

Keys == AllowedKeys \union {"ctrl", "alt", "shift"}
        \union {"a", "b", "c", "d", "e", "f", "g", "h", "i", "j", "k", "l", "m", "n", "o", "p", "q",
                "r", "s", "t", "u", "v", "w", "x", "y", "z"}

Down(k) == [key |-> k, down |-> TRUE]
Up(k)   == [key |-> k, down |-> FALSE]
Press(k) == IF k \in Keys THEN <<Down(k), Up(k)>> ELSE << >>

\* The modifiers down, the key down and up, the modifiers up again, in reverse.
Hotkey(keys) ==
    IF ~ (ToSet(keys) \subseteq Keys) THEN << >>
    ELSE LET modifiers == Front(keys) IN
         [i \in DOMAIN modifiers |-> Down(modifiers[i])] \o Press(Last(keys))
            \o [i \in DOMAIN modifiers |-> Up(Reverse(modifiers)[i])]
Typed(text) == FlattenSeq([i \in DOMAIN text |-> <<Down(text[i]), Up(text[i])>>])
Clicked(button) == IF ButtonAllowed(button) THEN <<Down(button), Up(button)>> ELSE << >>

\* The four calls: what the policy allows is sent, unless another window than the
\* expected one is in front; who has no approval to read it from expects None.
None == 0
Allowed(call) ==
    CASE call.op = "press_key"    -> call.keys[1] \in AllowedKeys
      [] call.op = "press_hotkey" -> HotkeyAllowed(call.keys)
      [] call.op = "type_text"    -> TextAllowed(call.text, call.max)
      [] call.op = "click_screen" -> ButtonAllowed(call.button) /\ PointAllowed(call.x, call.y, call.size)
Sent(call, expected, front) ==
    IF ~ Allowed(call) \/ expected \notin {None, front} THEN << >>
    ELSE CASE call.op = "press_key"    -> Press(call.keys[1])
           [] call.op = "press_hotkey" -> Hotkey(Canonical(call.keys))
           [] call.op = "type_text"    -> Typed(call.text.letters)
           [] call.op = "click_screen" -> Clicked(call.button)

\* The keys down after the events; an error ends a sequence early.
Held(events) ==
    FoldLeft(LAMBDA held, e : IF e.down THEN held \union {e.key} ELSE held \ {e.key}, {}, events)

------------------------------------------------------------------------------
\* An allowed combination becomes the same keys whatever the modifier was called,
\* and allowing does not depend on having been made canonical before.
HotkeysAreCanonical(keys) ==
    /\ HotkeyAllowed(keys) = HotkeyAllowed(Canonical(keys))
    /\ HotkeyAllowed(keys) => Canonical(Canonical(keys)) = Canonical(keys)

\* The last key goes down while the others are held; sent to its end, a call
\* leaves nothing held, and a call the policy refuses sends nothing at all.
NothingHeld(call, expected, front) ==
    LET events == Sent(call, expected, front) IN
    /\ Held(events) = {}
    /\ call.op = "press_hotkey" /\ events # << >> =>
        Held(SubSeq(events, 1, Len(call.keys))) = ToSet(Canonical(call.keys))
    /\ events # << >> => Allowed(call) /\ expected \in {None, front}

\* A focus that is reported is that of a window that was alive, in sight, and the
\* only one meant; on a desktop that stays as it is, the one that was approved.
FocusIsMeant(registry, approval, desktop, after, own, limit, ref) ==
    LET focus == FocusWindow(registry, desktop, after, own, limit, ref)
        shown == ShownForApproval(registry, approval, own, limit, ref) IN
    focus.status = "focused" =>
        /\ Meant(registry, desktop, own, limit, ref) = {focus.window}
        /\ focus.window \in desktop.alive \intersect desktop.visible
        /\ approval = desktop => shown = {focus.window}

\* The id of a window that closed means no window, once the windows were listed.
DeadIsForgotten(registry, desktop, own, limit, ref) ==
    ref.kind = "id" /\ ref.handle \notin desktop.alive =>
        Meant(AfterListing(registry, desktop, own), desktop, own, limit, ref) = {}
==============================================================================
