------------------------------ MODULE MCRooms ------------------------------
(* TLC instance of Rooms: sessions, profiles and room ids are model values.  *)
EXTENDS Rooms, TLC
=============================================================================
