--------------------------- MODULE MCChannelList ----------------------------
(* ChannelList with a few changes of the server; a user who stars, ones who*)
(* read, one who comes and goes, ones who archive, change the channel or   *)
(* mark as unread, among others who do all they can; and one who reads all *)
(* channels while others post a little more.                               *)
EXTENDS ChannelList

MCHabits ==
    [asks : { {"star", "unstar"}, {"read"}, {"readAll"}, {"join", "leave"},
              {"archive"}, {"update"}, {"unread"} },
     others : {Others}, changes : {2}]
    \cup [asks : { {"readAll"} }, others : { {"post"} }, changes : {3}]
=============================================================================
