------------------------------- MODULE MidiExport -------------------------------
(***************************************************************************)
(* The MIDI file of a recording (corrected_export.py, _write_midi).  A     *)
(* pitch may sound several times at once, which one MIDI channel cannot    *)
(* say: overlapping notes of a pitch go to different channels, pedals to   *)
(* all channels in use, and the messages of one sample to a fixed order.   *)
(***************************************************************************)
EXTENDS Ordering, Sequences

CONSTANTS Channels,        \* MIDI_MELODIC_CHANNELS, all but the drum channel
          SamplesPerTick   \* of the sample rate and the tempo of the file

ASSUME MidiAssumption ==
  /\ Channels \subseteq Nat /\ IsFiniteSet(Channels) /\ Channels # {}
  /\ SamplesPerTick \in Nat \ {0}

\* The offset of an event that was still sounding when the recording ended.
Open == -1

\* midi_tick_at_sample.
Tick(sample) == Nearest(sample, SamplesPerTick)

NotesOf(events) == {i \in DOMAIN events : events[i].kind = "note"}
PedalsOf(events) == {i \in DOMAIN events : events[i].kind = "pedal"}

OffsetOf(event) == Larger(event.onset, event.offset)

-----------------------------------------------------------------------------
(* Channels.                                                               *)

NoteOrder(events) ==
  SortedBy(NotesOf(events),
           LAMBDA i : <<events[i].onset, events[i].number, OffsetOf(events[i]), i>>)

\* The channels on which a pitch is still sounding at the onset of note i.
Sounding(events, i, channel) ==
  {channel[j] : j \in {k \in DOMAIN channel :
      /\ events[k].number = events[i].number
      /\ OffsetOf(events[k]) > events[i].onset}}

NoChannels == [i \in {} |-> 0]

\* The lowest free channel for each note of a sequence, given one note after the
\* other; the export is refused (ValueError) when none is free.
Allot(events, order) ==
  LET after[n \in 0..Len(order)] ==
        IF n = 0 THEN [refused |-> FALSE, channel |-> NoChannels]
        ELSE LET before == after[n - 1]
                 i      == order[n]
                 free   == Channels \ Sounding(events, i, before.channel)
                 low    == CHOOSE c \in free : \A d \in free : c <= d
             IN  IF before.refused \/ free = {} THEN [refused |-> TRUE, channel |-> NoChannels]
                 ELSE [refused |-> FALSE,
                       channel |-> [j \in DOMAIN before.channel \cup {i} |->
                                      IF j = i THEN low ELSE before.channel[j]]]
  IN  after[Len(order)]

Allotment(events) == Allot(events, NoteOrder(events))

-----------------------------------------------------------------------------
(* The file.                                                               *)

Message(event, i, at, phase, channel) ==
  [at |-> at, phase |-> phase, channel |-> channel, kind |-> event.kind,
   number |-> event.number, on |-> phase \in {2, 3}, by |-> i]

\* Pedals reach every channel in use, or the first when there is no note.
PedalChannels(channel) ==
  IF DOMAIN channel = {} THEN {0} ELSE {channel[i] : i \in DOMAIN channel}

\* note_off 0, pedal up 1, note_on 2, pedal down 3.
Timeline(events, channel) ==
  {Message(events[i], i, events[i].onset, 2, channel[i]) : i \in NotesOf(events)}
    \cup {Message(events[i], i, OffsetOf(events[i]), 0, channel[i]) : i \in NotesOf(events)}
    \cup {Message(events[i], i, events[i].onset, 3, c) :
             i \in PedalsOf(events), c \in PedalChannels(channel)}
    \cup {Message(events[i], i, OffsetOf(events[i]), 1, c) :
             i \in PedalsOf(events), c \in PedalChannels(channel)}

\* Mutant: a note begins before one that ends at the same sample.
MessageOrderOnFirst(m) == <<m.at, -m.phase, m.by, m.channel>>

\* Messages of one sample and phase commute; any order of them will do.
MessageOrder(m) == <<m.at, m.phase, m.by, m.channel>>

\* Each message with its distance in ticks from the one before it.
File(events, channel) ==
  LET messages == SortedBy(Timeline(events, channel), MessageOrder)
  IN  [k \in DOMAIN messages |->
        [delta |-> Larger(0, Tick(messages[k].at)
                               - (IF k = 1 THEN 0 ELSE Tick(messages[k - 1].at))),
         message |-> messages[k]]]

-----------------------------------------------------------------------------
(* What a player makes of the file.                                        *)

Same(m, n) == m.channel = n.channel /\ m.kind = n.kind /\ m.number = n.number

\* The message that began what a message ends: the last one before it that was
\* for the same key or pedal of the same channel.
Ends(file, k) ==
  LET earlier == {j \in 1..(k - 1) : Same(file[j].message, file[k].message)}
  IN  IF earlier = {} THEN 0 ELSE CHOOSE j \in earlier : \A l \in earlier : l <= j

TimeOf(file, k) ==
  LET upto[n \in 0..k] == IF n = 0 THEN 0 ELSE upto[n - 1] + file[n].delta
  IN  upto[k]

\* Everything that is heard, from when to when, and which message ended it.
Heard(file) ==
  {[by |-> file[k].message.by, channel |-> file[k].message.channel,
    begun |-> IF Ends(file, k) = 0 THEN 0 ELSE file[Ends(file, k)].message.by,
    down |-> Ends(file, k) # 0 /\ file[Ends(file, k)].message.on,
    from |-> TimeOf(file, Ends(file, k)), upto |-> TimeOf(file, k)] :
      k \in {l \in DOMAIN file : ~ file[l].message.on}}

Sound(event, i, channel) ==
  [by |-> i, channel |-> channel, begun |-> i, down |-> TRUE,
   from |-> Tick(event.onset), upto |-> Tick(OffsetOf(event))]

\* What should be heard.
Expected(events, channel) ==
  {Sound(events[i], i, channel[i]) : i \in NotesOf(events)}
    \cup {Sound(events[i], i, c) : i \in PedalsOf(events), c \in PedalChannels(channel)}

Overlap(e, f) == e.onset < OffsetOf(f) /\ f.onset < OffsetOf(e)

\* Notes end after they begin, and a pedal is not pressed while it is down.
Playable(events) ==
  /\ \A i \in DOMAIN events : events[i].onset < OffsetOf(events[i])
  /\ \A i, j \in PedalsOf(events) :
       i # j => ~ (events[i].number = events[j].number /\ Overlap(events[i], events[j]))

\* More notes of a pitch at one sample than there are channels.
Crowded(events) ==
  \E i \in NotesOf(events) :
    Cardinality({j \in NotesOf(events) :
      /\ events[j].number = events[i].number
      /\ events[j].onset <= events[i].onset /\ events[i].onset < OffsetOf(events[j])})
        > Cardinality(Channels)

================================================================================
