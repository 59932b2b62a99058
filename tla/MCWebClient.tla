---------------------------- MODULE MCWebClient ----------------------------
(* Values for the constants of WebClient.  The rules are the two of every  *)
(* policy in sample_data.sql, with fewer hours.                            *)
EXTENDS WebClient

Match(id, sport, city, venue, competition, low, high, free) ==
    [id |-> id, sport |-> sport, city |-> city, venue |-> venue, competition |-> competition,
     low |-> low, high |-> high, free |-> free]

MCMatches ==
    << Match(1, "football", "tehran", "azadi", "league", 100, 300, 2),
       Match(2, "football", "tabriz", "yadegar", "league", 100, 100, 1),
       Match(3, "volleyball", "tehran", "hall", "cup", 200, 300, 0),
       Match(4, "football", "tehran", "azadi", "cup", 300, 300, 0) >>

Seat(id, text, city, competition, status, time, price) ==
    [id |-> id, text |-> text, city |-> city, competition |-> competition, status |-> status,
     match |-> "scheduled", time |-> time, price |-> price]

MCTickets ==
    { Seat(9, 3, "tehran", "league", "available", 4, 200),
      Seat(10, 1, "tehran", "league", "available", 5, 100),
      Seat(11, 2, "tabriz", "league", "available", 6, 100),
      Seat(3, 4, "tehran", "cup", "available", 2, 300),
      Seat(4, 5, "tehran", "league", "sold", 6, 100) }

MCRules ==
    { [min |-> 0, max |-> 2, percent |-> 50],
      [min |-> 2, max |-> Endless, percent |-> 10] }
=============================================================================
