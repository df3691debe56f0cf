------------------------------- MODULE Jukebox -------------------------------
(***************************************************************************)
(* The jukebox of the daemon (supysonic/jukebox.py): commands, one at a    *)
(* time, change the playlist and its index, and a thread plays the songs   *)
(* with an external program.  The commands and the thread share a lock for *)
(* the playlist, and two events, for skip and stop, that it does not cover.*)
(***************************************************************************)
EXTENDS Naturals, Sequences, SequencesExt

CONSTANTS
    Songs,           \* songs that are played
    MaxList,         \* bound: the length of the playlist
    MaxCommands      \* bound: commands

ASSUME JukeboxAssumption == MaxList \in Nat /\ MaxCommands \in Nat /\ "none" \notin Songs

VARIABLES
    list,        \* __playlist
    index,       \* __index
    skipping,    \* __skip
    stopping,    \* __stop
    thread,      \* __play_thread: where it is in its loop
    player,      \* proc: the song it was started with, and whether it has ended
    command,     \* what remains to be done of the command in progress
    commands,    \* how many have been given
    mixedUp      \* history: the list has changed under the song that is played

jukeboxVars == <<list, index, skipping, stopping, thread, player, command, commands, mixedUp>>

-----------------------------------------------------------------------------
NoPlayer == [song |-> "none", over |-> FALSE]

InitJukebox ==
    /\ list = <<>> /\ index = 0
    /\ skipping = FALSE /\ stopping = FALSE
    /\ thread = "none" /\ player = NoPlayer
    /\ command = <<>> /\ commands = 0
    /\ mixedUp = FALSE

\* The elements of the list are counted from 0.
Song(i) == list[i + 1]
InList(i) == i < Len(list)

-----------------------------------------------------------------------------
(***************************************************************************)
(* The commands.  Each task is one step under the lock, or one event.      *)
(***************************************************************************)
Asked(tasks) ==
    /\ command = <<>> /\ commands < MaxCommands
    /\ commands' = commands + 1 /\ command' = tasks
    /\ UNCHANGED <<list, index, skipping, stopping, thread, player, mixedUp>>

AskAdd(s) == Len(list) < MaxList /\ Asked(<<<<"add", s>>>>)
AskSet(s) == Asked(<<<<"clear">>, <<"add", s>>>>)
AskClear == Asked(<<<<"clear">>>>)
AskRemove(i) == Asked(<<<<"remove", i>>>>)
AskShuffle == Asked(<<<<"shuffle">>>>)
AskStart == Asked(<<<<"start">>>>)
AskStop == Asked(<<<<"stop">>>>)

\* A skip beyond the list is refused before anything is changed.
AskSkip(i) == InList(i) /\ Asked(<<<<"index", i>>, <<"skip">>, <<"start">>>>)

Does(task) == command # <<>> /\ Head(command)[1] = task /\ command' = Tail(command)
Given(task) == Head(command)[2]

Add ==
    /\ Does("add") /\ list' = Append(list, Given("add"))
    /\ UNCHANGED <<index, skipping, stopping, thread, player, commands, mixedUp>>

Clear ==
    /\ Does("clear") /\ list' = <<>> /\ index' = 0
    /\ mixedUp' = (player # NoPlayer)
    /\ UNCHANGED <<skipping, stopping, thread, player, commands>>

IndexAfterRemoval_Same(i) == index

IndexAfterRemoval(i) == IF InList(i) /\ i < index THEN index - 1 ELSE index

\* Out of range, nothing happens.
RemoveSong ==
    /\ Does("remove")
    /\ LET i == Given("remove")
       IN  /\ list' = IF InList(i) THEN RemoveAt(list, i + 1) ELSE list
           /\ index' = IndexAfterRemoval(i)
           /\ mixedUp' = (mixedUp \/ (i = index /\ InList(i) /\ player # NoPlayer))
    /\ UNCHANGED <<skipping, stopping, thread, player, commands>>

Shuffle ==
    /\ Does("shuffle")
    /\ list' \in {Reverse(list), list}
    /\ mixedUp' = (player # NoPlayer)
    /\ UNCHANGED <<index, skipping, stopping, thread, player, commands>>

Index ==
    /\ Does("index") /\ index' = Given("index")
    /\ mixedUp' = (player # NoPlayer)
    /\ UNCHANGED <<list, skipping, stopping, thread, player, commands>>

Skip ==
    /\ Does("skip") /\ skipping' = TRUE
    /\ UNCHANGED <<list, index, stopping, thread, player, commands, mixedUp>>

\* While the thread lives, nothing happens.
Start ==
    /\ Does("start")
    /\ IF thread # "none" \/ list = <<>> THEN UNCHANGED <<thread, skipping, stopping>>
       ELSE thread' = "top" /\ skipping' = FALSE /\ stopping' = FALSE
    /\ UNCHANGED <<list, index, player, commands, mixedUp>>

Stop ==
    /\ Does("stop") /\ stopping' = (stopping \/ thread # "none")
    /\ UNCHANGED <<list, index, skipping, thread, player, commands, mixedUp>>

-----------------------------------------------------------------------------
(***************************************************************************)
(* The thread.                                                             *)
(***************************************************************************)
EndThread == thread' = "none" /\ player' = NoPlayer /\ mixedUp' = FALSE

\* The events; a skip before the first song is started ends the thread.
Top ==
    /\ thread = "top"
    /\ \/ (stopping \/ (skipping /\ player = NoPlayer)) /\ EndThread /\ UNCHANGED skipping
       \/ /\ ~stopping /\ skipping /\ player # NoPlayer
          /\ thread' = "play" /\ player' = NoPlayer
          /\ skipping' = FALSE /\ mixedUp' = FALSE
       \/ /\ ~stopping /\ ~skipping /\ thread' = "play"
          /\ UNCHANGED <<player, skipping, mixedUp>>
    /\ UNCHANGED <<list, index, stopping, command, commands>>

\* __play_file: an index beyond the list ends the thread; the program may not start.
PlayFile(i) ==
    IF InList(i)
    THEN /\ thread' = "top" /\ mixedUp' = FALSE
         /\ player' \in {NoPlayer, [song |-> Song(i), over |-> FALSE]}
    ELSE EndThread

NextIndex == index + 1

Play ==
    /\ thread = "play"
    /\ \/ player = NoPlayer /\ PlayFile(index) /\ UNCHANGED index
       \/ player # NoPlayer /\ ~player.over /\ thread' = "top"
          /\ UNCHANGED <<index, player, mixedUp>>
       \/ /\ player.over /\ index' = NextIndex
          /\ IF InList(NextIndex) THEN PlayFile(NextIndex) ELSE EndThread
    /\ UNCHANGED <<list, skipping, stopping, command, commands>>

\* The program has played its song.
Ends ==
    /\ player # NoPlayer /\ ~player.over /\ player' = [player EXCEPT !.over = TRUE]
    /\ UNCHANGED <<list, index, skipping, stopping, thread, command, commands, mixedUp>>

NextJukebox ==
    \/ \E s \in Songs : AskAdd(s) \/ AskSet(s)
    \/ \E i \in 0 .. MaxList : AskRemove(i) \/ AskSkip(i)
    \/ AskClear \/ AskShuffle \/ AskStart \/ AskStop
    \/ Add \/ Clear \/ RemoveSong \/ Shuffle \/ Index \/ Skip \/ Start \/ Stop
    \/ Top \/ Play \/ Ends

-----------------------------------------------------------------------------
\* No program plays on without its thread; the index is that of the song that is
\* played, unless the list has been changed under it; and it is never more than
\* one beyond the end, from where the thread ends instead of playing.
JukeboxInOrder ==
    /\ player # NoPlayer => thread # "none"
    /\ player # NoPlayer /\ ~mixedUp => InList(index) /\ Song(index) = player.song
    /\ index <= Len(list) + 1
=============================================================================
