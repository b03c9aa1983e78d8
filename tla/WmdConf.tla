------------------------------ MODULE WmdConf ------------------------------
(***************************************************************************)
(* The edits of /ramdisk/etc/wmd.conf by upgrade_utils/files/wmdctrl.sh.   *)
(* Each writes the lines to keep into /tmp/wmd.conf.temp, moves that file  *)
(* over the configuration and appends the new lines, one echo after the    *)
(* other.  The temporary file has one name for every invocation and        *)
(* nothing keeps two invocations apart.  A command of the script is a      *)
(* step; comment lines, which nobody reads, are left out.                  *)
(***************************************************************************)
EXTENDS Naturals, Sequences, FiniteSets

CONSTANTS
  Procs,     \* the invocations
  Globals,   \* the settings of "set": duration, q_active, wan_port
  Wlans,     \* the wlans that have a block of lines
  Settings,  \* the values
  Params,    \* the sets of parameters that "set wlan" may be given
  MaxEdits   \* bound: that many edits are started

Keys == Globals \cup Wlans
ItemNames == {"threshold", "w_active", "wan"}
ASSUME SettingAssumption ==
  /\ Globals # {} /\ Wlans # {} /\ Globals \cap Wlans = {}
  /\ Settings # {} /\ Params \subseteq SUBSET ItemNames /\ MaxEdits \in Nat

\* A line, with the key it was written for, which the script sees only in "set"
\* and "head" lines.
Line == [is : {"set"}, key : Globals, val : Settings]
        \cup [is : {"head", "end"} \cup ItemNames, key : Wlans, val : Settings]
Conf == Seq(Line)
L(is, k, v) == [is |-> is, key |-> k, val |-> v]

VARIABLES
  file,  \* the configuration
  temp,  \* the temporary file: a set with its contents, {} when there is none
  edit,  \* [Procs -> the running edit, with what it began from]
  edits  \* how many were started

wmdVars == <<file, temp, edit, edits>>

NoEdit == [pc |-> "idle", fn |-> "set", key |-> CHOOSE k \in Keys : TRUE, val |-> CHOOSE v \in Settings : TRUE,
           items |-> {}, n |-> 0, pass |-> 1, rest |-> <<>>, out |-> <<>>, block |-> FALSE,
           alone |-> FALSE, stale |-> FALSE, broke |-> FALSE, before |-> <<>>]
Idle(e) == e.pc \in {"idle", "done"}

Item(e, i) == IF i \in e.items THEN <<L(i, e.key, e.val)>> ELSE <<>>
\* The lines an edit appends: of a block the parameters it was given.
New(e) ==
  IF e.fn = "set" THEN <<L("set", e.key, e.val)>>
  ELSE <<L("head", e.key, e.val)>> \o Item(e, "threshold") \o Item(e, "w_active") \o Item(e, "wan")
       \o <<L("end", e.key, e.val)>>

\* A configuration: a setting before or after the block of a wlan.
WmdInit ==
  /\ \E k \in Globals, w \in Wlans, items \in Params :
       LET set == <<L("set", k, NoEdit.val)>>
           block == New([NoEdit EXCEPT !.fn = "wlan", !.key = w, !.items = items])
       IN file \in {set \o block, block \o set}
  /\ temp = {}
  /\ edit = [p \in Procs |-> NoEdit]
  /\ edits = 0

\* A step of p: its edit goes on with e.  The others are no longer alone.
Steps(p, e) ==
  edit' = [q \in Procs |-> IF q = p THEN e ELSE [edit[q] EXCEPT !.alone = FALSE, !.before = <<>>]]
WmdGoto(p, pc) == Steps(p, [edit[p] EXCEPT !.pc = pc])
\* Bound: one command of an edit fails (the mv that finds no file apart).
MayBreak(p) == ~edit[p].broke

\* "set <key> <val>", "set wlan name=<key> ..." or "enable <key>": an edit starts.
Start(p, fn, k, v, items) ==
  /\ Idle(edit[p])
  /\ edits < MaxEdits /\ edits' = edits + 1
  /\ k \in (IF fn = "set" THEN Globals ELSE Wlans)
  /\ fn # "wlan" => items = {}
  /\ LET alone == \A q \in Procs : Idle(edit[q]) IN
     Steps(p, [NoEdit EXCEPT !.pc = "open", !.fn = fn, !.key = k, !.val = v,
                             !.items = items, !.alone = alone, !.stale = temp # {},
                             !.before = IF alone THEN file ELSE <<>>])
  /\ UNCHANGED <<file, temp>>

\* sed > temp begins an empty file; touch leaves one that is there, and set_wlan
\* appends to it.
Open(p) ==
  /\ edit[p].pc = "open"
  /\ temp' = IF edit[p].fn = "set" \/ temp = {} THEN {<<>>} ELSE temp
  /\ WmdGoto(p, "cat")
  /\ UNCHANGED <<file, edits>>

\* sed and cat read the configuration.
Cat(p) ==
  /\ edit[p].pc = "cat"
  /\ Steps(p, [edit[p] EXCEPT !.pc = "read", !.rest = file])
  /\ UNCHANGED <<file, temp, edits>>

\* The block flag after a line: on from the wlan's name to the next "}".
BlockAfter(e, l) == e.fn # "set" /\ ((l.is = "head" /\ l.key = e.key) \/ (e.block /\ l.is # "end"))
\* Mutation: the "}" of the dropped block is kept.
KeptEnd(e, l) ==
  IF e.fn = "set" THEN IF e.pass = 1 /\ l.is = "set" /\ l.key = e.key THEN <<>> ELSE <<l>>
  ELSE IF e.fn = "enable" THEN <<IF BlockAfter(e, l) /\ l.is = "w_active" THEN [l EXCEPT !.val = e.val] ELSE l>>
  ELSE IF BlockAfter(e, l) THEN <<>> ELSE <<l>>
\* What becomes of a line.  The first sed drops the old setting, the second only
\* the comment before it.
KeptLine(e, l) ==
  IF e.fn = "set" THEN IF e.pass = 1 /\ l.is = "set" /\ l.key = e.key THEN <<>> ELSE <<l>>
  ELSE IF e.fn = "enable" THEN <<IF BlockAfter(e, l) /\ l.is = "w_active" THEN [l EXCEPT !.val = e.val] ELSE l>>
  ELSE IF e.block \/ BlockAfter(e, l) THEN <<>> ELSE <<l>>

\* A line goes to sed's output, which it writes at its end, or in a turn of the
\* loop of set_wlan, whose echo may fail, to the temporary file.
Read(p) ==
  /\ edit[p].pc = "read" /\ edit[p].rest # <<>>
  /\ LET e == edit[p]  l == Head(e.rest)  k == KeptLine(e, l)
         on == [e EXCEPT !.rest = Tail(@), !.block = BlockAfter(e, l)] IN
     \/ e.fn = "set" /\ Steps(p, [on EXCEPT !.out = @ \o k]) /\ UNCHANGED temp
     \/ /\ e.fn # "set" /\ Steps(p, on)
        /\ temp' = (IF k = <<>> THEN temp ELSE IF temp = {} THEN {k} ELSE {t \o k : t \in temp})
     \/ e.fn # "set" /\ MayBreak(p) /\ k # <<>> /\ Steps(p, [on EXCEPT !.broke = TRUE]) /\ UNCHANGED temp
  /\ UNCHANGED <<file, edits>>

\* The end of sed or of the loop.  Sed's file may have become the configuration.
ReadEnds(p) ==
  /\ edit[p].pc = "read" /\ edit[p].rest = <<>>
  /\ LET e == edit[p]  on == [e EXCEPT !.pc = "move", !.block = FALSE, !.out = <<>>] IN
     \/ e.fn # "set" /\ Steps(p, on) /\ UNCHANGED <<file, temp>>
     \/ e.fn = "set" /\ temp = {} /\ Steps(p, on) /\ file' \in {file, e.out} /\ UNCHANGED temp
     \/ e.fn = "set" /\ temp # {} /\ Steps(p, on) /\ temp' = {e.out} /\ UNCHANGED file
     \/ /\ e.fn = "set" /\ MayBreak(p) /\ Steps(p, [on EXCEPT !.broke = TRUE])
        /\ \E n \in 0 .. Len(e.out) : temp' = {SubSeq(e.out, 1, n)}
        /\ UNCHANGED file
  /\ UNCHANGED edits

\* What follows a mv: of the settings only wan_port has no second sed.
AfterMove(e) ==
  IF e.fn = "enable" THEN {[NoEdit EXCEPT !.pc = IF e.broke THEN "idle" ELSE "done"]}
  ELSE {[e EXCEPT !.pc = "echo"]} \cup (IF e.fn = "set" /\ e.pass = 1 THEN {[e EXCEPT !.pc = "open", !.pass = 2]}
                                                                 ELSE {})

\* mv, which fails in silence: another invocation has moved the file, or the copy
\* breaks off.
Move(p) ==
  /\ edit[p].pc = "move"
  /\ \/ /\ temp # {} /\ file' \in temp /\ temp' = {}
        /\ \E e \in AfterMove(edit[p]) : Steps(p, e)
     \/ /\ \/ (temp = {} \/ MayBreak(p)) /\ UNCHANGED file
           \/ MayBreak(p) /\ \E t \in temp : \E n \in 0 .. Len(t) : file' = SubSeq(t, 1, n)
        /\ \E e \in AfterMove([edit[p] EXCEPT !.broke = TRUE]) : Steps(p, e)
        /\ UNCHANGED temp
  /\ UNCHANGED edits

\* echo >> of the next of the new lines.
AppendLine(p) ==
  /\ edit[p].pc = "echo"
  /\ LET e == edit[p]
         After(broke) == IF e.n + 1 < Len(New(e)) THEN [e EXCEPT !.n = @ + 1, !.broke = broke]
                         ELSE [NoEdit EXCEPT !.pc = IF broke THEN "idle" ELSE "done"]
     IN \/ file' = Append(file, New(e)[e.n + 1]) /\ Steps(p, After(e.broke))
        \/ MayBreak(p) /\ UNCHANGED file /\ Steps(p, After(TRUE))
  /\ UNCHANGED <<temp, edits>>

\* The invocation is killed between two commands.
Kill(p) ==
  /\ ~Idle(edit[p])
  /\ Steps(p, NoEdit)
  /\ UNCHANGED <<file, temp, edits>>

WmdNext ==
  \E p \in Procs :
    \/ \E fn \in {"set", "wlan", "enable"}, k \in Keys, v \in Settings, items \in Params \cup {{}} :
         Start(p, fn, k, v, items)
    \/ Open(p) \/ Cat(p) \/ Read(p) \/ ReadEnds(p) \/ Move(p) \/ AppendLine(p) \/ Kill(p)

WmdSpec == WmdInit /\ [][WmdNext]_wmdVars

-----------------------------------------------------------------------------
(* Properties                                                               *)

\* The types of the state.
WmdTypeOK ==
  /\ file \in Conf
  /\ temp \subseteq Conf
  /\ edit \in [Procs -> [pc : {"idle", "open", "cat", "read", "move", "echo", "done"},
                         fn : {"set", "wlan", "enable"}, key : Keys, val : Settings, items : SUBSET ItemNames,
                         n : 0 .. 4, pass : 1 .. 2, rest : Conf, out : Conf, block : BOOLEAN,
                         alone : BOOLEAN, stale : BOOLEAN, broke : BOOLEAN, before : Conf]]
  /\ edits \in 0 .. MaxEdits

\* Every block of f is whole: it has its head, its "}" and nothing in between
\* that was not written for it.
Whole(f) ==
  \A i \in 1 .. Len(f) :
    /\ f[i].is \in ItemNames \cup {"end"} => i > 1 /\ f[i - 1].key = f[i].key /\ f[i - 1].is \notin {"end", "set"}
    /\ f[i].is \in ItemNames \cup {"head"} =>
         i < Len(f) /\ f[i + 1].key = f[i].key /\ f[i + 1].is \notin {"head", "set"}

\* f without the lines written for k.
Without(f, k) ==
  LET pos(i) == Cardinality({j \in 1 .. i : f[j].key # k})
  IN [n \in 1 .. pos(Len(f)) |-> f[CHOOSE i \in 1 .. Len(f) : f[i].key # k /\ pos(i) = n]]

\* f with the parameter of k changed that enable and disable change.
Changed(f, k, v) ==
  [i \in 1 .. Len(f) |-> IF f[i].key = k /\ f[i].is = "w_active" THEN [f[i] EXCEPT !.val = v] ELSE f[i]]

\* What the configuration is during an edit, and what it is to be in the end.
Stages(e) ==
  IF e.fn = "enable" THEN {e.before, Changed(e.before, e.key, e.val)}
  ELSE {e.before} \cup {Without(e.before, e.key) \o SubSeq(New(e), 1, n) : n \in 0 .. Len(New(e))}
Meant(e) ==
  IF e.fn = "enable" THEN Changed(e.before, e.key, e.val) ELSE Without(e.before, e.key) \o New(e)

\* An edit no step of another invocation comes between and no command of which
\* fails leaves, when it has ended, just what it was meant to.  At any moment
\* before, where it may be killed, the configuration is the one it found, or that
\* one without the old entry and with the first lines of the new one: the lines
\* written for other keys are never touched.  set_wlan does so only when it began
\* from a configuration whose blocks are whole and from no temporary file: an
\* earlier edit that was killed can have left a block without its "}", at which
\* the lines up to the next one are dropped, or a temporary file.
LoneEditIsExact ==
  [][\A p \in Procs :
       LET e == edit[p] IN
       ( /\ e.alone /\ ~e.broke /\ (e.fn = "set" \/ (~e.stale /\ Whole(e.before)))
         /\ ~Idle(e) /\ (edit'[p].pc = "done" \/ (edit'[p].alone /\ ~edit'[p].broke)) )
       => /\ edit'[p].pc = "done" => file' = Meant(e)
          /\ file' \in Stages(e)]_wmdVars
==============================================================================
