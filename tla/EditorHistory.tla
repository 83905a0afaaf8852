---------------------------- MODULE EditorHistory ----------------------------
(***************************************************************************)
(* The editing session of crates/nle-ui-core/src/editor.rs over one        *)
(* timeline document: commands, pointer gestures, undo and redo, and the   *)
(* probes that find out how long a media really is while clips of it       *)
(* already lie on the timeline with a provisional length.                  *)
(*                                                                         *)
(* A history entry is the batch of edits, the ids the probe owned before   *)
(* and after, and seen: the view of the document the entry goes back to.   *)
(* seen is no state of the program; a probe revises it as it would revise  *)
(* that document, and History, the abstract specification, reads it.  So   *)
(* does astray, the record of what happened that the history does not     *)
(* provide for: the properties say of what they exempt.                    *)
(***************************************************************************)
EXTENDS Timeline

CONSTANTS
    Media,        \* the media in the bin
    Target,       \* media -> "both", "audio" or "video": the tracks it goes to
    Sessions,     \* where a session is met: [content, owned, known, past], past the
                  \* views its history goes back to
    Provisional,  \* length of a clip of a media no probe has answered for
    Lengths,      \* the lengths a probe may find
    Ticks,        \* places on the ruler the pointer and the playhead visit
    Moves,        \* distances a clip is dragged by in one update
    Nudges,       \* distances an edge or the source is dragged by
    DefaultCut,   \* length of a new transition where there is room for it
    Capacity,     \* entries the history holds
    MaxEdits      \* bound on commands, gesture updates and departures

ASSUME HistoryAssumption ==
    /\ Provisional \in Nat \ {0} /\ Capacity \in Nat \ {0} /\ DefaultCut \in Nat \ {0} /\ MaxEdits \in Nat
    /\ Lengths \subseteq Nat \ {0} /\ Ticks \subseteq Nat
    /\ Target \in [Media -> {"both", "audio", "video"}]

VARIABLES
    doc,      \* the timeline
    columns,  \* the canvas cache, as the last frame left it
    undo,     \* entries [edits, before, after, seen], newest last
    redo,
    owned,    \* provisional_clip_ids: the clips whose length is the probe's
    known,    \* media -> the length a probe found, 0 before
    pending,  \* pending_history: at most one checkpoint [at, seen]
    drag,     \* timeline_drag: at most one gesture [kind, id, edge, other]
    astray,   \* the departures so far, see below
    steps

vars == <<doc, columns, undo, redo, owned, known, pending, drag, astray, steps>>

None == <<>>

View(d, ids) == [content |-> Content(d), owned |-> ids]

Now == View(doc, owned)

\* from_snapshot: index and next ids follow from what was saved.
Opened(content) ==
    Reseeded(Reindexed([tracks |-> content.tracks, titles |-> content.titles, cuts |-> content.cuts,
                        at |-> <<>>, next |-> <<>>, fresh |-> TRUE]))

Entry(before, after) ==
    [edits |-> Delta(before.content, after.content), before |-> before.owned, after |-> after.owned,
     seen |-> before]

Init ==
    \E s \in Sessions :
        /\ doc = Opened(s.content)
        /\ columns = Columns(doc)
        /\ owned = s.owned /\ known = s.known
        /\ LET views == Append(s.past, Now)
           IN  undo = [i \in DOMAIN s.past |-> Entry(views[i], views[i + 1])]
        /\ redo = <<>>
        /\ pending = None /\ drag = None
        /\ astray = {} /\ steps = 0

(***************************************************************************)
(* Departures.                                                             *)
(*                                                                         *)
(* "gesture": a command, an undo or a redo while a gesture's checkpoint is *)
(* open.  "silent": a drag has taken clips from the probe and is back      *)
(* where it began, so that its release records nothing.  "probe": a probe  *)
(* that is not Harmless.  The code takes no notice of any of the three.    *)
(***************************************************************************)
Strays(S) == astray' = astray \cup S

Interrupts == Strays(IF pending = None THEN {} ELSE {"gesture"})

\* Against the bound, every kind of departure counts once.
Took(n) == steps' = Min({MaxEdits, steps + n + Cardinality(astray' \ astray)})

(***************************************************************************)
(* Recording.                                                              *)
(***************************************************************************)
\* Every step ends with a frame: rebuild_if_stale.
Show(d) ==
    /\ doc' = [d EXCEPT !.fresh = TRUE]
    /\ columns' = IF d.fresh THEN columns ELSE Columns(d)

\* EditorUndoStack::record: no entry when nothing changed.
Record(before, d, ids) ==
    LET room == IF Len(undo) = Capacity THEN Tail(undo) ELSE undo
    IN  \E e \in {Entry(before.at, View(d, ids))} :
            IF e.edits = <<>> THEN UNCHANGED <<undo, redo>>
            ELSE undo' = Append(room, [e EXCEPT !.seen = before.seen]) /\ redo' = <<>>

\* A mutant: a clip that is still there is still the probe's.
StillThere(d) == {id \in owned : Where(d, id) # {}}

\* abandon_changed_provisional_since.
StillOwned(d) ==
    {id \in owned : /\ Where(doc, id) # {} /\ Where(d, id) # {}
                    /\ LET a == Clip(doc, id)
                           b == Clip(d, id)
                       IN  a.media = b.media /\ a.dur = b.dur /\ a.src = b.src}

\* A bound, not a guard: within a gesture a command needs room for two.
Ready == steps + Len(pending) < MaxEdits

\* One command: the edit, the ownership it leaves, and its entry.
Commit(d, ids) ==
    /\ Show(d)
    /\ owned' = ids
    /\ Record([at |-> Now, seen |-> Now], d, ids)
    /\ Interrupts
    /\ Took(1)
    /\ UNCHANGED <<known, pending, drag>>

ClipIds == DOMAIN doc.at

\* Linked selection is a switch of the editor; a clip of its own has no twin.
Links(id) == IF Clip(doc, id).link = 0 THEN {FALSE} ELSE BOOLEAN

Length(m) == IF known[m] = 0 THEN Provisional ELSE known[m]

(***************************************************************************)
(* Commands.                                                               *)
(***************************************************************************)
\* The clips an edit placed at a tick; the probe owns them while their
\* media's length is unknown.
Provisionally(d, m, at) ==
    {id \in DOMAIN d.at \ ClipIds : known[m] = 0 /\ Clip(d, id).start = at}

\* add_selected_to_timeline: after the last clip of the tracks it goes to.
AddSelected(m) ==
    LET Free(t) == LET c == doc.tracks[t].clips IN IF c = <<>> THEN 0 ELSE End(Last(c))
        start    == Max({Free(t) : t \in Range(EditTracks(doc, Target[m]))})
    IN  /\ Ready
        /\ \E d \in Placed(doc, Target[m], m, start, Length(m)) :
               Commit(d, StillOwned(d) \cup Provisionally(d, m, start))

\* overwrite_media_at, and overwrite at the playhead.
Overwrite(m, at) ==
    /\ Ready
    /\ \E d \in OverwriteEdit(doc, Target[m], m, at, Length(m)) :
           Commit(d, StillOwned(d) \cup Provisionally(d, m, at))

\* edit_selected_at_playhead, insert: not under the position lock.
Insert(m, at) ==
    /\ Ready
    /\ \E d \in InsertEdit(doc, Target[m], m, at, Length(m)) :
           Commit(d, StillOwned(d) \cup Provisionally(d, m, at))

\* edit_selected_at_playhead, replace: audio does not go on a video track.
ReplaceSelected(m, id, linked) ==
    LET affected == {c.id : c \in Selected(doc, id, linked)}
    IN  /\ Ready
        /\ Target[m] = "audio" =>
               \A i \in affected : doc.tracks[Spot(doc, i)[1]].kind = "audio"
        /\ \E d \in Replace(doc, id, m, linked) : Commit(d, StillOwned(d))

DeleteSelected(id, linked) ==
    /\ Ready
    /\ \E d \in Delete(doc, id, linked) : Commit(d, owned \ (ClipIds \ DOMAIN d.at))

\* razor_at_playhead and the razor tool: both halves leave the probe.
Razor(t, at, linked) ==
    LET Halves(d) == {id \in DOMAIN d.at : id \notin ClipIds \/ Clip(d, id).dur # Clip(doc, id).dur}
    IN  /\ Ready
        /\ \E d \in IF linked THEN RazorLinked(doc, t, at) ELSE {RazorAt(doc, t, at)} :
               /\ d # doc
               /\ Commit(d, owned \ Halves(d))

\* dynamic_trim_selected.
DynamicTrim(id, by, linked, ripple) ==
    /\ Ready
    /\ \E d \in Trim(doc, id, "out", by, linked, ripple) :
           Commit(d, owned \ {c.id : c \in Selected(doc, id, linked)})

\* transition_duration_capacity, audio_transition_duration_capacity: what the
\* two clips have left beside other transitions, and for a crossfade what the
\* media have beyond the cut.
Shared(kind, l, r, id) ==
    LET Used(S, Part(_)) == MapThenSumSet(Part, {x \in S : x.id # id})
        into  == {x \in Range(doc.cuts[kind]) : x.right = l.id}
        outof == {x \in Range(doc.cuts[kind]) : x.left = r.id}
    IN  Min({2 * Max({0, l.dur - Used(into, Rest)}) + 1, 2 * Max({0, r.dur - Used(outof, Lead)})})

Handles(l, r) ==
    IF known[l.media] = 0 THEN {}
    ELSE {Min({2 * l.dur + 1, 2 * r.dur, 2 * r.src + 1,
               2 * Max({0, known[l.media] - End([l EXCEPT !.start = l.src])})})}

Capacities(kind, l, r, id) ==
    {Min({h, Shared(kind, l, r, id)}) : h \in Handles(l, r)}
    \cup (IF kind = "video" THEN {Shared(kind, l, r, id)} ELSE {})

\* add_video_transition, toggle_audio_crossfade: at the cut of two neighbours.
ToggleCut(kind, t, i) ==
    LET l     == doc.tracks[t].clips[i]
        r     == doc.tracks[t].clips[i + 1]
        cut   == [id |-> 0, track |-> doc.tracks[t].id, left |-> l.id, right |-> r.id, dur |-> 0]
        there == {k \in DOMAIN doc.cuts[kind] : SameCut(doc.cuts[kind][k], cut)}
        New(c) == AddCut(doc, kind, [cut EXCEPT !.dur = Min({DefaultCut, c})])
    IN  /\ Ready
        /\ \E d \in IF there = {} THEN UNION {New(c) : c \in Capacities(kind, l, r, 0) \ {0}}
                    ELSE RemoveCut(doc, kind, Min(there)) :
               Commit(d, owned)

AddTitleAtPlayhead(at) ==
    /\ Ready
    /\ \E d \in AddTitle(doc, at, Provisional) : Commit(d, owned)

DeleteTitle(i) ==
    /\ Ready
    /\ \E d \in RemoveTitle(doc, i) : Commit(d, owned)

AddTimelineTrack(kind) ==
    /\ Ready
    /\ \E d \in AddTrack(doc, kind) : Commit(d, owned)

ToggleMute(t) ==
    /\ Ready
    /\ \E d \in ToggleMuted(doc, t) : Commit(d, owned)

(***************************************************************************)
(* Gestures.                                                               *)
(***************************************************************************)
\* What a press can take hold of: a clip, the cut of two clips, a transition
\* of either kind or a title.  "ripple" is a trim with the trim tool.
Gesture(kind, id, edge, other) == [kind |-> kind, id |-> id, edge |-> edge, other |-> other]

Grips ==
    LET Edges == {"in", "out"}
        adjacent == {<<ClipAt(doc, s).id, ClipAt(doc, r).id>> : <<s, r>> \in
                       {p \in Spots(doc) \X Spots(doc) : /\ p[1][1] = p[2][1]
                                                         /\ End(ClipAt(doc, p[1])) = ClipAt(doc, p[2]).start}}
    IN  {Gesture(k, id, "out", 0) : k \in {"move", "slip"}, id \in ClipIds}
        \cup {Gesture(k, id, e, 0) : k \in {"trim", "ripple", "fade"}, id \in ClipIds, e \in Edges}
        \cup {Gesture("roll", p[1], "out", p[2]) : p \in adjacent}
        \cup {Gesture("title", id, e, 0) : id \in Ids(doc.titles), e \in Edges \cup {"both"}}
        \cup UNION {{Gesture(k, id, "out", 0) : id \in Ids(doc.cuts[k])} : k \in Cuts}

\* begin_timeline_history: the first checkpoint of a gesture is kept.
Press ==
    /\ steps < MaxEdits /\ drag = None
    /\ \E g \in Grips : drag' = <<g>>
    /\ pending' = IF pending = None THEN <<[at |-> Now, seen |-> Now]>> ELSE pending
    /\ UNCHANGED <<doc, columns, undo, redo, owned, known, astray, steps>>

\* One update of the pointer: the documents it can lead to.
Dragged(g, by, linked) ==
    LET clips  == {g.id} \cup (IF g.kind = "roll" THEN {g.other} ELSE {})
        titles == {i \in DOMAIN doc.titles : doc.titles[i].id = g.id}
        cuts   == {i \in DOMAIN doc.cuts[g.kind] : doc.cuts[g.kind][i].id = g.id}
        OnTitle(i) == LET x == doc.titles[i]
                      IN  ChangeTitle(doc, i, IF g.edge = "out" THEN x.start ELSE x.start + by,
                                      CASE g.edge = "in"  -> x.dur - by
                                        [] g.edge = "out" -> x.dur + by
                                        [] OTHER          -> x.dur)
    IN  CASE g.kind = "title" -> UNION {OnTitle(i) : i \in titles}
          [] g.kind \in Cuts  -> UNION {ChangeCut(doc, g.kind, i, doc.cuts[g.kind][i].dur + by) : i \in cuts}
          [] \E id \in clips : Where(doc, id) = {} -> {}
          [] g.kind = "move"   -> Move(doc, g.id, by, linked)
          [] g.kind = "slip"   -> Slip(doc, g.id, by, linked)
          [] g.kind \in {"trim", "ripple"} -> Trim(doc, g.id, g.edge, by, linked, g.kind = "ripple")
          [] g.kind = "roll"   -> Roll(doc, g.id, g.other, by, linked)
          [] OTHER             -> SetFade(doc, g.id, g.edge, Max({0, by}))

\* A trim, a slip and a roll take the clips from the probe, a move does not.
Disowned(g, linked) ==
    IF g.kind \in {"trim", "ripple", "slip", "roll"}
    THEN {c.id : c \in UNION {Selected(doc, id, linked) :
                                id \in {g.id} \cup (IF g.kind = "roll" THEN {g.other} ELSE {})}}
    ELSE {}

\* The gesture is where it began, but clips have left the probe: no entry will
\* give them back.
Silent(d, ids) ==
    \E p \in Range(pending) : Content(d) = p.at.content /\ ids # p.at.owned

Drag(by, linked) ==
    /\ steps < MaxEdits /\ drag # None
    /\ \E d \in Dragged(drag[1], by, linked) :
           LET ids == owned \ Disowned(drag[1], linked)
           IN  /\ d # doc
               /\ Show(d)
               /\ owned' = ids
               /\ Strays(IF Silent(d, ids) THEN {"silent"} ELSE {})
    /\ Took(1)
    /\ UNCHANGED <<undo, redo, known, pending, drag>>

\* commit_timeline_history: an undo during the gesture has dropped the checkpoint.
Release ==
    /\ drag # None
    /\ IF pending = None THEN UNCHANGED <<undo, redo>>
       ELSE Record(pending[1], doc, owned)
    /\ pending' = None /\ drag' = None
    /\ UNCHANGED <<doc, columns, owned, known, astray, steps>>

(***************************************************************************)
(* Probes.                                                                 *)
(***************************************************************************)
\* reconcile_media_duration; {} when it is refused.
Learn(d, ids, m, length) ==
    LET mine == {id \in ids : Where(d, id) # {} /\ Clip(d, id).media = m}
    IN  {[doc |-> e, owned |-> ids \ mine] : e \in Reconciled(d, ids, m, length)}

Learned(view, m, length) ==
    TheOr({View(x.doc, x.owned) : x \in Learn(Opened(view.content), view.owned, m, length)}, view)

\* Every version of the document the history leads to, and a gesture's own.
Versions == {e.seen : e \in Range(undo) \cup Range(redo) \cup Range(pending)} \cup {Now}

\* A probe the history provides for: in no version is there a clip of the media
\* that is longer than it and that the probe does not own, nor a transition at
\* one that it owns; and it resizes nothing of what an open gesture began with.
Harmless(m, length) ==
    LET Its(v) == {c \in UNION {Range(v.content.tracks[t].clips) : t \in DOMAIN v.content.tracks} :
                     c.media = m}
        Joined(v) == UNION {{x.left, x.right} : x \in UNION {Range(v.content.cuts[k]) : k \in Cuts}}
    IN  /\ \A v \in Versions : \A c \in Its(v) :
               IF c.id \in v.owned THEN c.id \notin Joined(v) ELSE c.src + c.dur <= length
        /\ \A p \in Range(pending) : Learned(p.seen, m, length).content = p.seen.content

Revised(entries, m, length) ==
    [i \in DOMAIN entries |-> [entries[i] EXCEPT !.seen = Learned(@, m, length)]]

\* set_waveform, set_media_metadata, set_video_strip: the analyses agree.
Probe(m, length) ==
    /\ known[m] \in {0, length}
    /\ \E x \in Learn(doc, owned, m, length) :
           /\ Show(x.doc)
           /\ owned' = x.owned
    /\ known' = [known EXCEPT ![m] = length]
    /\ undo' = Revised(undo, m, length)
    /\ redo' = Revised(redo, m, length)
    /\ pending' = Revised(pending, m, length)
    /\ Strays(IF Harmless(m, length) THEN {} ELSE {"probe"})
    /\ Took(0) /\ UNCHANGED drag

(***************************************************************************)
(* Undo and redo.                                                          *)
(***************************************************************************)
\* A mutant: the length that was found meanwhile is not asked for.
RestoredOnly(d, ids) == [doc |-> d, owned |-> ids]

\* restore_provisional_history_ids and reconcile_restored_known_durations.
Restored(d, ids) ==
    LET media == {m \in Media : known[m] # 0 /\ \E id \in ids : Where(d, id) # {} /\ Clip(d, id).media = m}
        Settle(m, x) == TheOr(Learn(x.doc, x.owned, m, known[m]), x)
    IN  FoldSet(Settle, [doc |-> d, owned |-> ids], media)

Replayed(d, ids) ==
    /\ \E x \in {Restored(d, ids)} : Show(x.doc) /\ owned' = x.owned
    /\ pending' = None
    /\ Interrupts /\ Took(0)
    /\ UNCHANGED <<known, drag>>

\* What apply_history_batch leaves, before the lengths found since are asked for.
Unmade(e) == ApplyBatch(doc, e.edits, FALSE)

Remade(e) == ApplyBatch(doc, e.edits, TRUE)

Undo ==
    /\ undo # <<>>
    /\ LET e == Last(undo)
       IN  /\ Replayed(Unmade(e), e.before)
           /\ undo' = Front(undo)
           /\ redo' = Append(redo, [e EXCEPT !.seen = Now])

Redo ==
    /\ redo # <<>>
    /\ LET e == Last(redo)
       IN  /\ Replayed(Remade(e), e.after)
           /\ redo' = Front(redo)
           /\ undo' = Append(undo, [e EXCEPT !.seen = Now])

Place == \E m \in Media : \/ AddSelected(m)
                         \/ \E at \in Ticks : Overwrite(m, at) \/ Insert(m, at)
                         \/ \E id \in ClipIds : \E linked \in Links(id) : ReplaceSelected(m, id, linked)

Cut == \/ \E id \in ClipIds : \E linked \in Links(id) :
              \/ DeleteSelected(id, linked)
              \/ \E by \in Nudges, ripple \in BOOLEAN : DynamicTrim(id, by, linked, ripple)
       \/ \E t \in DOMAIN doc.tracks, at \in Ticks, linked \in BOOLEAN : Razor(t, at, linked)
       \/ \E t \in DOMAIN doc.tracks : \E i \in 1..Len(doc.tracks[t].clips) - 1 :
              ToggleCut(doc.tracks[t].kind, t, i)

Dress == \/ \E at \in Ticks : AddTitleAtPlayhead(at)
         \/ \E i \in DOMAIN doc.titles : DeleteTitle(i)
         \/ \E kind \in Cuts : AddTimelineTrack(kind)
         \/ \E t \in DOMAIN doc.tracks : ToggleMute(t)

Next ==
    \/ Place \/ Cut \/ Dress
    \/ Press \/ Release
    \/ \E by \in Nudges \cup IF drag # None /\ drag[1].kind = "move" THEN Moves ELSE {},
           linked \in UNION {Links(id) : id \in ClipIds \cap {g.id : g \in Range(drag)}} \cup {FALSE} :
           Drag(by, linked)
    \/ \E m \in Media, length \in Lengths : Probe(m, length)
    \/ Undo \/ Redo

Spec == Init /\ [][Next]_vars

(***************************************************************************)
(* Properties.                                                             *)
(***************************************************************************)
\* Every step ends with a document that check_invariants accepts, in which no
\* two clips have one id, unless a gesture was interrupted or a probe was not
\* harmless: edits, probes between them, and undo and redo once the lengths
\* found since are asked for (what apply_history_batch leaves before that is
\* ReplaysCheckOut).  The index and the next id are right whatever happens.
LayoutValid ==
    /\ astray \subseteq {"silent"} =>
           /\ ChecksOut(doc)
           /\ Cardinality(ClipIds) = Cardinality(Spots(doc))
    /\ doc.at = Reindexed(doc).at
    /\ \A id \in ClipIds : id < doc.next.clip

\* The debug assertion at the end of apply_history_batch: the document checks out
\* as soon as a batch is replayed.
ReplaysCheckOut ==
    /\ undo # <<>> => ChecksOut(Unmade(Last(undo)))
    /\ redo # <<>> => ChecksOut(Remade(Last(redo)))

\* The canvas cache is rebuilt only when the structural generation says so
\* (rebuild_if_stale, same_track_layout, track_cache_structural).  No step but an
\* undo or a redo leaves a clip on it stale that was not stale before, in its
\* place or in its media, and these do so at most to the clips their batch
\* patched where the patch itself moves and resizes nothing.
Stale ==
    LET Drawn(cs) == UNION {{<<cs[t].id, cs[t].kind, cs[t].clips[i]>> :
                                i \in DOMAIN cs[t].clips} : t \in DOMAIN cs}
        Differ(A, B) == (A \ B) \cup (B \ A)
    IN  {x[3].id : x \in Differ(Drawn(columns), Drawn(Columns(doc)))}

PatchedInPlace(entries) ==
    IF entries = <<>> THEN {}
    ELSE {x.old.id : x \in {y \in Range(Last(entries).edits) :
            /\ y.op = "patch" /\ y.list.kind = "clip"
            /\ y.old.start = y.new.start /\ y.old.dur = y.new.dur}}

Replays == Len(undo') + Len(redo') = Len(undo) + Len(redo) /\ Len(undo') # Len(undo)

CanvasKeepsUp ==
    [][\/ columns' = Columns(doc')
       \/ /\ [t \in DOMAIN columns' |-> columns'[t].id] = [t \in DOMAIN doc'.tracks |-> doc'.tracks[t].id]
          /\ Stale' \subseteq Stale \cup
                 (IF ~Replays THEN {}
                  ELSE PatchedInPlace(IF Len(undo') < Len(undo) THEN undo ELSE redo))]_vars

\* What the probe may still resize is exactly a placeholder as it was placed: the
\* clip is there, its media is unprobed, and no edit, undone or not, has changed
\* its source or its length (abandon_provisional_timing and its callers); unless
\* a gesture was interrupted or a probe was not harmless.
OwnedUntouched ==
    astray \subseteq {"silent"} =>
        \A id \in owned :
            /\ id \in ClipIds
            /\ LET c == Clip(doc, id)
               IN  known[c.media] = 0 /\ c.src = 0 /\ c.dur = Provisional

\* The history is the one of the abstract specification: undo shows the document
\* and the probe rights of before the edit, redo those of after it, as the
\* probes since then would have left them (EditorUndoStack, undo_timeline); up
\* to the first departure.
LearnedFact(view, fact) == Learned(view, fact[1], fact[2])

Steps == INSTANCE History WITH
    past    <- [i \in DOMAIN undo |-> undo[i].seen],
    future  <- [i \in DOMAIN redo |-> redo[i].seen],
    present <- IF pending = None THEN Now ELSE pending[1].seen,
    Facts   <- Media \X Lengths,
    Learned <- LearnedFact

HistoryExact == Steps!HistoryInit /\ [][astray' # {} \/ Steps!HistoryNext]_(Steps!line)
=============================================================================
