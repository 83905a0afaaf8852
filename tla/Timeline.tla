------------------------------ MODULE Timeline ------------------------------
(***************************************************************************)
(* The timeline document of crates/nle-timeline/src/lib.rs as a value, and *)
(* its edits as operators on it.  A document is a record                   *)
(*   tracks  sequence of [id, kind, muted, clips]; clips in time order     *)
(*   titles  sequence of [id, start, dur]                                  *)
(*   cuts    [video, audio]: sequences of [id, track, left, right, dur]    *)
(*   at      the index: clip id -> <<track position, clip position>>       *)
(*   next    the next id of every kind                                     *)
(*   fresh   the canvas cache still carries the structural generation      *)
(* A clip is [id, media, link (0 = none), start, dur, src, fin, fout]:     *)
(* its gain, effects and colour are left out, the fades stand for every    *)
(* property that is clamped to the clip.  An edit that can be refused is   *)
(* a set: {} when the code returns an error, {document} otherwise.  Every  *)
(* operator is constant level; EditorHistory is the machine that uses it.  *)
(***************************************************************************)
EXTENDS Integers, SequencesExt

Cuts == {"video", "audio"}

\* The function that is a sequence, as a tuple.  The value is the same; TLC 2.19
\* loses an EXCEPT applied to a function constructor once an element was read and
\* a sequence operator follows, and a tuple is not a function constructor.
Tuple(f) == <<>> \o f

(***************************************************************************)
(* Looking up.                                                             *)
(***************************************************************************)
End(c) == c.start + c.dur

Spots(d) == UNION {{<<t, i>> : i \in DOMAIN d.tracks[t].clips} : t \in DOMAIN d.tracks}

ClipAt(d, s) == d.tracks[s[1]].clips[s[2]]

Ids(s) == {s[i].id : i \in DOMAIN s}

Later(r, s) == \/ r[1] > s[1]
               \/ r[1] = s[1] /\ r[2] > s[2]

\* rebuild_clip_locations: of two clips with one id the later one is indexed.
Reindexed(d) ==
    LET spots == Spots(d)
        Newest(id) == LET mine == {s \in spots : ClipAt(d, s).id = id}
                      IN  CHOOSE s \in mine : \A r \in mine : ~Later(r, s)
    IN  [d EXCEPT !.at = [id \in {ClipAt(d, s).id : s \in spots} |-> Newest(id)]]

\* The place of a clip: the index when it points at the clip, else a scan.
Where(d, id) ==
    LET listed == IF id \in DOMAIN d.at THEN {d.at[id]} ELSE {}
        located == {s \in listed \cap Spots(d) : ClipAt(d, s).id = id}
    IN  IF located # {} THEN located ELSE {s \in Spots(d) : ClipAt(d, s).id = id}

Spot(d, id) == CHOOSE s \in Where(d, id) : TRUE

Clip(d, id) == ClipAt(d, Spot(d, id))

SetClip(d, s, c) == [d EXCEPT !.tracks[s[1]].clips[s[2]] = c]

\* partition_point: how many clips of the track start before the tick.
Before(clips, tick) == Cardinality({i \in DOMAIN clips : clips[i].start < tick})

FirstTrack(d, kind) == Min({t \in DOMAIN d.tracks : d.tracks[t].kind = kind})

ClampFades(c) ==
    LET fin == Min({c.fin, c.dur})
    IN  [c EXCEPT !.fin = fin, !.fout = Min({@, c.dur - fin})]

Ordered(clips) == SortSeq(clips, LAMBDA a, b : a.start < b.start)

Sorted(d) == [d EXCEPT !.tracks = Tuple([t \in DOMAIN @ |-> [@[t] EXCEPT !.clips = Ordered(@)]])]

(***************************************************************************)
(* Transitions at cuts, and what makes a document valid.                   *)
(***************************************************************************)
Lead(x) == x.dur \div 2

Rest(x) == x.dur - Lead(x)

SameCut(x, y) == x.track = y.track /\ x.left = y.left /\ x.right = y.right

\* validate_transition, validate_audio_transition: x among the others in d.
CutValid(d, kind, x) ==
    LET others == {y \in Range(d.cuts[kind]) : y.id # x.id}
        Used(S, Part(_)) == MapThenSumSet(Part, S)
        Between(l, r) == /\ l.start < r.start
                         /\ End(l) = r.start
                         /\ Used({y \in others : y.right = l.id}, Rest) + Lead(x) <= l.dur
                         /\ Rest(x) + Used({y \in others : y.left = r.id}, Lead) <= r.dur
    IN  /\ x.dur > 0
        /\ \A y \in others : ~SameCut(x, y)
        /\ \E l \in Where(d, x.left), r \in Where(d, x.right) :
               /\ l[1] = r[1]
               /\ d.tracks[l[1]].id = x.track /\ d.tracks[l[1]].kind = kind
               /\ Between(ClipAt(d, l), ClipAt(d, r))

Without(s, bad) == IF bad = {} THEN s ELSE RemoveAt(s, Min(bad))

DropInvalid(d, kind) ==
    [d EXCEPT !.cuts[kind] = Without(@, {i \in DOMAIN @ : ~CutValid(d, kind, @[i])})]

\* prune_invalid_transitions: the first invalid one goes, until none is left.
Pruned(d) ==
    FoldLeft(DropInvalid, d, [i \in DOMAIN d.cuts.video |-> "video"] \o [i \in DOMAIN d.cuts.audio |-> "audio"])

TrackValid(clips) ==
    /\ \A i \in DOMAIN clips : clips[i].dur > 0
    /\ \A i \in 1..Len(clips) - 1 : /\ clips[i].start <= clips[i + 1].start
                                    /\ End(clips[i]) <= clips[i + 1].start

\* check_invariants.
ChecksOut(d) ==
    /\ \A t \in DOMAIN d.tracks : TrackValid(d.tracks[t].clips)
    /\ Cardinality(Ids(d.titles)) = Len(d.titles)
    /\ \A i \in DOMAIN d.titles : d.titles[i].start >= 0 /\ d.titles[i].dur > 0
    /\ \A k \in Cuts : /\ Cardinality(Ids(d.cuts[k])) = Len(d.cuts[k])
                       /\ \A i \in DOMAIN d.cuts[k] : CutValid(d, k, d.cuts[k][i])

\* bump_generations(true).
Bump(d) == [Pruned(d) EXCEPT !.fresh = FALSE]

\* What the canvas cache keeps of the tracks.
Columns(d) ==
    [t \in DOMAIN d.tracks |->
        [id |-> d.tracks[t].id, kind |-> d.tracks[t].kind,
         clips |-> [i \in DOMAIN d.tracks[t].clips |->
             LET c == d.tracks[t].clips[i]
             IN  [id |-> c.id, start |-> c.start, end |-> End(c), media |-> c.media]]]]

SameLayout(d, e) == Columns(d) = Columns(e)

\* atomic_edit: the staged document replaces d when it checks out.
Atomic(d, staged) ==
    {[e EXCEPT !.fresh = d.fresh /\ SameLayout(d, e)] : e \in {f \in {Pruned(staged)} : ChecksOut(f)}}

(***************************************************************************)
(* Edits of timing.  new is the set of the clips as they are to be.        *)
(***************************************************************************)
Overlaps(a, b) == a.start < End(b) /\ End(a) > b.start

\* validate_timing_changes: only the nearest unchanged neighbours are asked.
Fits(d, new) ==
    \A c \in new :
        LET t     == Spot(d, c.id)[1]
            clips == d.tracks[t].clips
            still == {i \in DOMAIN clips : clips[i].id \notin {e.id : e \in new}}
            left  == {i \in still : i <= Before(clips, c.start)}
            near  == (IF left = {} THEN {} ELSE {Max(left)})
                     \cup (IF still = left THEN {} ELSE {Min(still \ left)})
        IN  /\ c.start >= 0 /\ c.dur > 0 /\ c.src >= 0
            /\ \A i \in near : ~Overlaps(c, clips[i])
            /\ \A e \in new : e.id # c.id /\ Spot(d, e.id)[1] = t => ~Overlaps(c, e)

\* refresh_clip_locations_range on the reordered tracks.
Refreshed(d, tracks) ==
    [d EXCEPT !.at = [id \in DOMAIN @ |->
        IF @[id][1] \in tracks
        THEN CHOOSE s \in Spots(d) : s[1] = @[id][1] /\ ClipAt(d, s).id = id
        ELSE @[id]]]

\* apply_timing_changes: only tracks where a clip passes a neighbour are sorted.
Timed(d, new) ==
    LET Start(c)   == IF c.id \in {e.id : e \in new} THEN (CHOOSE e \in new : e.id = c.id).start
                      ELSE c.start
        crossed == {t \in DOMAIN d.tracks : \E c \in new :
                      /\ Spot(d, c.id)[1] = t
                      /\ LET i == Spot(d, c.id)[2]
                             clips == d.tracks[t].clips
                         IN  \/ i > 1 /\ Start(clips[i - 1]) > c.start
                             \/ i < Len(clips) /\ Start(clips[i + 1]) < c.start}
        moved   == FoldSet(LAMBDA c, e : SetClip(e, Spot(d, c.id), ClampFades(c)), d, new)
        ordered == [moved EXCEPT !.tracks = Tuple([t \in DOMAIN @ |->
                       IF t \in crossed THEN [@[t] EXCEPT !.clips = Ordered(@)] ELSE @[t]])]
    IN  Bump(Refreshed(ordered, crossed))

\* The check and the change together; nothing at all when the pointer is where it was.
Retimed(d, new, by) ==
    IF ~Fits(d, new) THEN {} ELSE IF by = 0 THEN {d} ELSE {Timed(d, new)}

\* selected_clips: the clip and, on every track, its linked twin.
Selected(d, id, linked) ==
    LET c       == Clip(d, id)
        First(t) == Before(d.tracks[t].clips, c.start) + 1
        twins   == {d.tracks[t].clips[First(t)] :
                       t \in {u \in DOMAIN d.tracks : First(u) <= Len(d.tracks[u].clips)}}
    IN  {c} \cup {e \in twins : /\ linked /\ c.link # 0
                                /\ e.link = c.link /\ e.start = c.start /\ e.dur = c.dur}

\* move_clip_with_link.
Move(d, id, by, linked) ==
    Retimed(d, {[c EXCEPT !.start = @ + by] : c \in Selected(d, id, linked)}, by)

Trimmed(c, edge, by, ripple) ==
    IF edge = "in"
    THEN [c EXCEPT !.start = IF ripple THEN @ ELSE @ + by, !.dur = @ - by, !.src = @ + by]
    ELSE [c EXCEPT !.dur = @ + by]

\* trim with ripple: later clips of the tracks of the selection are shifted.
Rippled(d, selected, edge, by) ==
    LET shift == IF edge = "in" THEN -by ELSE by
        On(t) == {c \in selected : c \in Range(d.tracks[t].clips)}
        Shifted(t, c) == LET ahead == {o \in On(t) : o.id # c.id /\ c.start >= End(o)}
                         IN  [c EXCEPT !.start = @ + shift * Cardinality(ahead)]
        Next(t, c) == IF c \in selected THEN Trimmed(c, edge, by, TRUE) ELSE Shifted(t, c)
    IN  [d EXCEPT !.tracks = Tuple([t \in DOMAIN @ |->
            [@[t] EXCEPT !.clips = Tuple([i \in DOMAIN @ |-> Next(t, @[i])])]])]

RippleFits(rippled) ==
    /\ \A s \in Spots(rippled) : ClipAt(rippled, s).start >= 0 /\ ClipAt(rippled, s).src >= 0
    /\ \A t \in DOMAIN rippled.tracks : TrackValid(rippled.tracks[t].clips)

FadesClamped(d, ids) ==
    [d EXCEPT !.tracks = Tuple([t \in DOMAIN @ |->
        [@[t] EXCEPT !.clips = Tuple([i \in DOMAIN @ |->
            IF @[i].id \in ids THEN ClampFades(@[i]) ELSE @[i]])]])]

\* trim_start and trim_end.
Trim(d, id, edge, by, linked, ripple) ==
    LET selected == Selected(d, id, linked)
    IN  IF ripple
        THEN {IF by = 0 THEN d ELSE Bump(FadesClamped(e, {c.id : c \in selected})) :
                 e \in {f \in {Rippled(d, selected, edge, by)} : RippleFits(f)}}
        ELSE Retimed(d, {Trimmed(c, edge, by, FALSE) : c \in selected}, by)

\* slip_clip: other source, same place.
Slip(d, id, by, linked) ==
    LET selected == Selected(d, id, linked)
    IN  IF \E c \in selected : c.src + by < 0 THEN {}
        ELSE {FoldSet(LAMBDA c, e : SetClip(e, Spot(d, c.id), [c EXCEPT !.src = @ + by]), d, selected)}

\* roll_edit: the boundary of two adjacent clips, and of their linked twins.
Roll(d, left, right, by, linked) ==
    LET l == Clip(d, left)
        r == Clip(d, right)
        Match(e, c) == e.link = c.link /\ e.start = c.start /\ e.dur = c.dur
        Starting(t, tick) == Before(d.tracks[t].clips, tick) + 1
        twins == {t \in DOMAIN d.tracks :
                    /\ linked /\ l.link # 0 /\ r.link # 0
                    /\ Starting(t, r.start) <= Len(d.tracks[t].clips)
                    /\ Match(d.tracks[t].clips[Starting(t, l.start)], l)
                    /\ Match(d.tracks[t].clips[Starting(t, r.start)], r)}
        pairs == {<<l, r>>} \cup {<<d.tracks[t].clips[Starting(t, l.start)],
                                    d.tracks[t].clips[Starting(t, r.start)]>> : t \in twins}
        Rolled(p) == {[p[1] EXCEPT !.dur = @ + by],
                      [p[2] EXCEPT !.start = @ + by, !.dur = @ - by, !.src = @ + by]}
    IN  IF Spot(d, left)[1] # Spot(d, right)[1] \/ End(l) # r.start THEN {}
        ELSE Retimed(d, UNION {Rolled(p) : p \in pairs}, by)

\* set_fade_duration.
SetFade(d, id, edge, ticks) ==
    LET c == Clip(d, id)
        Room(other) == Min({ticks, c.dur - other})
    IN  {SetClip(d, Spot(d, id), IF edge = "in" THEN [c EXCEPT !.fin = Room(c.fout)]
                                 ELSE [c EXCEPT !.fout = Room(c.fin)])}

(***************************************************************************)
(* Edits of structure.                                                     *)
(***************************************************************************)
\* razor: the clip of one track under the tick; at an edge nothing is split.
RazorAt(d, t, tick) ==
    LET clips == d.tracks[t].clips
        under == {i \in DOMAIN clips : clips[i].start < tick /\ tick < End(clips[i])}
        Split(i) ==
            LET c     == clips[i]
                kept  == tick - c.start
                left  == ClampFades([c EXCEPT !.dur = kept, !.fout = 0])
                right == ClampFades([c EXCEPT !.id = d.next.clip, !.start = tick, !.dur = @ - kept,
                                              !.src = @ + kept, !.fin = 0])
            IN  InsertAt([clips EXCEPT ![i] = left], i + 1, right)
    IN  IF under = {} THEN d
        ELSE Bump(Reindexed([d EXCEPT !.tracks[t].clips = Split(Min(under)), !.next.clip = @ + 1]))

\* razor_linked: with it every track where a clip of the same link is under the tick.
RazorLinked(d, t, tick) ==
    LET Under(u) == {c \in Range(d.tracks[u].clips) : c.start < tick /\ tick < End(c)}
        links    == {c.link : c \in Under(t)} \ {0}
        cut      == [u \in DOMAIN d.tracks |-> u]
        Struck(u) == u = t \/ \E c \in Under(u) : c.link \in links
    IN  Atomic(d, IF Under(t) = {} THEN d
                  ELSE FoldLeft(LAMBDA e, u : IF Struck(u) THEN RazorAt(e, u, tick) ELSE e, d, cut))

\* delete_clip.
Delete(d, id, linked) ==
    LET gone == {c.id : c \in Selected(d, id, linked)}
    IN  Atomic(d, Reindexed([d EXCEPT !.tracks = Tuple([t \in DOMAIN @ |->
            [@[t] EXCEPT !.clips = SelectSeq(@, LAMBDA c : c.id \notin gone)]])]))

\* insert_clip_with_link: refused where it would overlap.
Inserted(d, t, c) ==
    LET clips == d.tracks[t].clips
        i     == Before(clips, c.start)
    IN  IF \/ i > 0 /\ End(clips[i]) > c.start
           \/ i < Len(clips) /\ End(c) > clips[i + 1].start
        THEN {}
        ELSE {Reindexed([d EXCEPT !.tracks[t].clips = InsertAt(clips, i + 1, [c EXCEPT !.id = d.next.clip]),
                                  !.next.clip = @ + 1])}

\* edit_tracks: the first tracks of the kinds the media has.
EditTracks(d, target) ==
    CASE target = "both" -> <<FirstTrack(d, "video"), FirstTrack(d, "audio")>>
      [] OTHER           -> <<FirstTrack(d, target)>>

\* insert_on_edit_tracks: a pair shares a link id.
Placed(d, target, media, at, dur) ==
    LET both == target = "both"
        clip == [id |-> 0, media |-> media, link |-> IF both THEN d.next.link ELSE 0,
                 start |-> at, dur |-> dur, src |-> 0, fin |-> 0, fout |-> 0]
        from == IF both THEN [d EXCEPT !.next.link = @ + 1] ELSE d
    IN  {Bump(e) : e \in FoldLeft(LAMBDA S, t : UNION {Inserted(e, t, clip) : e \in S},
                                  {from}, EditTracks(d, target))}

\* sort_and_validate, and the end of atomic_edit.
Settled(d, S) ==
    UNION {Atomic(d, Reindexed(Sorted(e))) : e \in S}

\* insert_edit: what is under the tick is split, what is later moves away.
InsertEdit(d, target, media, at, dur) ==
    LET Opened(e, t) == [RazorAt(e, t, at) EXCEPT !.tracks[t].clips =
            Tuple([i \in DOMAIN @ |-> IF @[i].start >= at THEN [@[i] EXCEPT !.start = @ + dur] ELSE @[i]])]
        room == FoldLeft(Opened, d, EditTracks(d, target))
    IN  Settled(d, Placed(room, target, media, at, dur))

\* overwrite_track: a clip that reaches over the interval leaves two tails.
Overwritten(d, t, at, end) ==
    LET Spans(c) == c.start < at /\ End(c) > end
        Left(c)  == ClampFades([c EXCEPT !.dur = at - c.start, !.fout = 0])
        Right(c) == ClampFades([c EXCEPT !.id = IF Spans(c) THEN d.next.clip ELSE @,
                                         !.start = end, !.dur = End(c) - end,
                                         !.src = @ + end - c.start, !.fin = 0])
        Pieces(c) == IF End(c) <= at \/ c.start >= end THEN <<c>>
                     ELSE (IF c.start < at THEN <<Left(c)>> ELSE <<>>)
                          \o (IF End(c) > end THEN <<Right(c)>> ELSE <<>>)
        clips == d.tracks[t].clips
        new   == Cardinality({i \in DOMAIN clips : Spans(clips[i])})
    IN  Reindexed([d EXCEPT !.tracks[t].clips = FlattenSeq([i \in DOMAIN clips |-> Pieces(clips[i])]),
                            !.next.clip = @ + new])

\* overwrite_edit.
OverwriteEdit(d, target, media, at, dur) ==
    LET bare == FoldLeft(LAMBDA e, t : Overwritten(e, t, at, at + dur), d, EditTracks(d, target))
    IN  Settled(d, Placed(bare, target, media, at, dur))

\* replace_clip_media: other source, same place and length.
Replace(d, id, media, linked) ==
    Atomic(d, FoldSet(LAMBDA c, e : SetClip(e, Spot(d, c.id), [c EXCEPT !.media = media, !.src = 0]),
                      d, Selected(d, id, linked)))

\* add, replace and remove of a transition of either kind.
AddCut(d, kind, x) ==
    LET cut == [x EXCEPT !.id = d.next[kind]]
    IN  IF CutValid(d, kind, cut)
        THEN {[d EXCEPT !.cuts[kind] = Append(@, cut), !.next[kind] = @ + 1]}
        ELSE {}

ChangeCut(d, kind, i, dur) ==
    LET cut == [d.cuts[kind][i] EXCEPT !.dur = dur]
    IN  IF CutValid(d, kind, cut) THEN {[d EXCEPT !.cuts[kind][i] = cut]} ELSE {}

RemoveCut(d, kind, i) == {[d EXCEPT !.cuts[kind] = RemoveAt(@, i)]}

\* add_title, replace_title, remove_title.
AddTitle(d, start, dur) ==
    {[d EXCEPT !.titles = Append(@, [id |-> d.next.title, start |-> start, dur |-> dur]),
               !.next.title = @ + 1]}

ChangeTitle(d, i, start, dur) ==
    IF start >= 0 /\ dur > 0
    THEN {[d EXCEPT !.titles[i].start = start, !.titles[i].dur = dur]}
    ELSE {}

RemoveTitle(d, i) == {[d EXCEPT !.titles = RemoveAt(@, i)]}

\* add_track, set_track_muted.
AddTrack(d, kind) ==
    {Bump([d EXCEPT !.tracks = Append(@, [id |-> d.next.track, kind |-> kind, muted |-> FALSE,
                                          clips |-> <<>>]),
                    !.next.track = @ + 1])}

ToggleMuted(d, t) == {[d EXCEPT !.tracks[t].muted = ~@]}

(***************************************************************************)
(* What a probe of the media's true length changes.                        *)
(***************************************************************************)
\* clamp_media_duration: clips that end beyond the media are shortened; {} when
\* one of them begins there or would still reach into the next clip.
Of(d, media) == {s \in Spots(d) : ClipAt(d, s).media = media}

NextClips(d, s) == {ClipAt(d, n) : n \in {<<s[1], s[2] + 1>>} \cap Spots(d)}

Clamped(d, media, length) ==
    LET Clamp(c) == ClampFades([c EXCEPT !.dur = Min({@, length - c.src})])
        long     == {s \in Of(d, media) : ClipAt(d, s).src + ClipAt(d, s).dur > length}
        Short(S) == FoldSet(LAMBDA s, e : SetClip(e, s, Clamp(ClipAt(d, s))), d, S)
    IN  IF \/ \E s \in Of(d, media) : ClipAt(d, s).src >= length
           \/ \E s \in long : \E n \in NextClips(d, s) : End(Clamp(ClipAt(d, s))) > n.start
        THEN {} ELSE {IF long = {} THEN d ELSE Bump(Short(long))}

\* reconcile_provisional_media_duration of the clips the probe still owns: they
\* may also grow, up to the next clip.
Regrown(d, owned, media, length) ==
    LET Size(s) == Min({length - ClipAt(d, s).src}
                       \cup {n.start - ClipAt(d, s).start : n \in NextClips(d, s)})
        mine    == {s \in Of(d, media) : ClipAt(d, s).id \in owned /\ ClipAt(d, s).dur # Size(s)}
        Grow(s, e) == SetClip(e, s, ClampFades([ClipAt(e, s) EXCEPT !.dur = Size(s)]))
    IN  IF mine = {} THEN d ELSE Bump(FoldSet(Grow, d, mine))

\* Either both happen or none.
Reconciled(d, owned, media, length) ==
    {Regrown(e, owned, media, length) : e \in Clamped(d, media, length)}

(***************************************************************************)
(* History: the difference of two documents, and replaying it.             *)
(***************************************************************************)
\* The member of a set of at most one, or what there is without it.
TheOr(S, x) == IF S = {} THEN x ELSE CHOOSE y \in S : TRUE

Content(d) == [tracks |-> d.tracks, titles |-> d.titles, cuts |-> d.cuts]

List(kind, track) == [kind |-> kind, track |-> track]

OfId(s, id) == s[CHOOSE i \in DOMAIN s : s[i].id = id]

\* Removed items from the back, inserted items from the front.
Removals(list, b, a) ==
    LET Removal(i) == [op |-> "remove", list |-> list, item |-> b[i], index |-> i]
    IN  Reverse(SelectSeq([i \in DOMAIN b |-> Removal(i)], LAMBDA e : e.item.id \notin Ids(a)))

Insertions(list, b, a) ==
    LET Insertion(i) == [op |-> "insert", list |-> list, item |-> a[i], index |-> i]
    IN  SelectSeq([i \in DOMAIN a |-> Insertion(i)], LAMBDA e : e.item.id \notin Ids(b))

Patches(list, b, a) ==
    LET Patch(x) == [op |-> "patch", list |-> list, old |-> x,
                     new |-> IF x.id \in Ids(a) THEN OfId(a, x.id) ELSE x]
    IN  SelectSeq([i \in DOMAIN b |-> Patch(b[i])], LAMBDA e : e.old # e.new)

ListDelta(list, b, a) == Removals(list, b, a) \o Patches(list, b, a) \o Insertions(list, b, a)

Controls(t) == [t EXCEPT !.clips = <<>>]

ControlDelta(b, a) ==
    IF Controls(b) = Controls(a) THEN <<>>
    ELSE <<[op |-> "patch", list |-> List("track", 0), old |-> Controls(b), new |-> Controls(a)]>>

\* append_same_cardinality_clip_delta: same order, or one clip that moved.
ClipsInPlace(list, b, a) ==
    LET moved == {i \in DOMAIN b : \E j \in DOMAIN a : /\ a[j].id = b[i].id
                                                       /\ RemoveAt(b, i) = RemoveAt(a, j)}
    IN  IF \A i \in DOMAIN b : b[i].id = a[i].id THEN {Patches(list, b, a)}
        ELSE {<<[op |-> "patch", list |-> list, old |-> b[i], new |-> OfId(a, b[i].id)]>> : i \in moved}

\* same_cardinality_timeline_delta: {} when membership changed.
InPlaceDelta(b, a) ==
    LET Lane(t) == List("clip", b[t].id)
        Clips(t) == ClipsInPlace(Lane(t), b[t].clips, a[t].clips)
    IN  IF /\ Len(b) = Len(a)
           /\ \A t \in DOMAIN b : /\ b[t].id = a[t].id /\ b[t].kind = a[t].kind
                                  /\ Len(b[t].clips) = Len(a[t].clips)
                                  /\ Clips(t) # {}
        THEN {FlattenSeq([t \in DOMAIN b |-> ControlDelta(b[t], a[t]) \o (CHOOSE s \in Clips(t) : TRUE)])}
        ELSE {}

\* timeline_tracks_delta.
MembershipDelta(b, a) ==
    LET tracks == List("track", 0)
        Kept(t) == IF b[t].id \in Ids(a)
                   THEN LET u == OfId(a, b[t].id)
                        IN  ControlDelta(b[t], u) \o ListDelta(List("clip", u.id), b[t].clips, u.clips)
                   ELSE <<>>
    IN  Removals(tracks, b, a) \o Insertions(tracks, b, a) \o FlattenSeq([t \in DOMAIN b |-> Kept(t)])

TracksDelta(b, a) ==
    TheOr(InPlaceDelta(b, a), MembershipDelta(b, a))

\* timeline_state_delta of two contents.
Delta(b, a) ==
    LET Others(d) == <<d.titles, d.cuts.video, d.cuts.audio>>
        Kind    == <<"title", "video", "audio">>
    IN  TracksDelta(b.tracks, a.tracks)
        \o FlattenSeq([i \in 1..3 |-> ListDelta(List(Kind[i], 0), Others(b)[i], Others(a)[i])])

\* A mutant: only clips that come and go count.
StructuralByMembership(edits) ==
    \E i \in DOMAIN edits : edits[i].op # "patch" /\ edits[i].list.kind \in {"clip", "track"}

\* timeline_edit_batch: whether replaying it changes what the canvas cache keeps.
Structural(edits) ==
    \E i \in DOMAIN edits :
        LET e == edits[i]
        IN  \/ e.op # "patch" /\ e.list.kind \in {"clip", "track"}
            \/ /\ e.op = "patch" /\ e.list.kind = "clip"
               /\ e.old.start # e.new.start \/ e.old.dur # e.new.dur

Undoing(e) ==
    CASE e.op = "insert" -> [e EXCEPT !.op = "remove"]
      [] e.op = "remove" -> [e EXCEPT !.op = "insert"]
      [] OTHER           -> [e EXCEPT !.old = e.new, !.new = e.old]

Edited(s, e) ==
    LET At(id) == {i \in DOMAIN s : s[i].id = id}
    IN  CASE e.op = "insert" -> InsertAt(s, Min({e.index, Len(s) + 1}), e.item)
          [] e.op = "remove" -> IF At(e.item.id) = {} THEN s ELSE RemoveAt(s, Min(At(e.item.id)))
          [] OTHER           -> IF At(e.new.id) = {} THEN s ELSE [s EXCEPT ![Min(At(e.new.id))] = e.new]

\* apply_history_edit: a clip is put back on its track, found by its id alone.
ApplyEdit(d, e) ==
    LET ts == DOMAIN d.tracks
        host == CASE e.op = "insert" -> {t \in ts : d.tracks[t].id = e.list.track}
                  [] e.op = "remove" -> {t \in ts : e.item.id \in Ids(d.tracks[t].clips)}
                  [] OTHER           -> {t \in ts : e.new.id \in Ids(d.tracks[t].clips)}
        Control(t) == IF d.tracks[t].id = e.new.id THEN [e.new EXCEPT !.clips = d.tracks[t].clips]
                      ELSE d.tracks[t]
    IN  CASE e.list.kind = "clip"  -> IF host = {} THEN d
                                      ELSE [d EXCEPT !.tracks[Min(host)].clips = Edited(@, e)]
          [] e.list.kind = "track" -> IF e.op = "patch" THEN [d EXCEPT !.tracks = Tuple([t \in ts |-> Control(t)])]
                                      ELSE [d EXCEPT !.tracks = Edited(@, e)]
          [] e.list.kind = "title" -> [d EXCEPT !.titles = Edited(@, e)]
          [] OTHER                 -> [d EXCEPT !.cuts[e.list.kind] = Edited(@, e)]

\* A mutant: ids by the number of clips there are.
ReseededByCount(d) ==
    LET After(s) == Max(Ids(s) \cup {0}) + 1
    IN  [d EXCEPT !.next = [track |-> After(d.tracks), clip |-> Cardinality(Spots(d)) + 1,
                            link |-> Cardinality(Spots(d)) + 1, title |-> After(d.titles),
                            video |-> After(d.cuts.video), audio |-> After(d.cuts.audio)]]

\* reseed_ids: one more than the highest id that is left.
Reseeded(d) ==
    LET Above(S) == Max(S \cup {0}) + 1
        clips    == {ClipAt(d, s) : s \in Spots(d)}
    IN  [d EXCEPT !.next = [track |-> Above(Ids(d.tracks)), clip |-> Above({c.id : c \in clips}),
                            link |-> Above({c.link : c \in clips}), title |-> Above(Ids(d.titles)),
                            video |-> Above(Ids(d.cuts.video)), audio |-> Above(Ids(d.cuts.audio))]]

\* apply_history_batch.
ApplyBatch(d, edits, forward) ==
    LET todo == IF forward THEN edits ELSE Reverse([i \in DOMAIN edits |-> Undoing(edits[i])])
        Whole(e) == Reseeded(Reindexed(Sorted(e)))
        Shown(e) == IF Structural(edits) THEN Bump(e) ELSE e
    IN  Shown(Whole(FoldLeft(ApplyEdit, d, todo)))
=============================================================================
