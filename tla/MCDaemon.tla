------------------------------ MODULE MCDaemon ------------------------------
(* A folder of two files, and a jukebox with two songs.                    *)
EXTENDS Daemon
=============================================================================
