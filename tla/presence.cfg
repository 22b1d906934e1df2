CONSTANTS
    a = a
    b = b
    a1 = a1
    a2 = a2
    b1 = b1
    g = g
    h = h
    data = data
    v = v
    Users <- MCUsers
    Friendships <- MCFriendships
    Games <- MCGames
    NoGame = NoGame
    Fields <- MCFields
    GameData = data
    Values <- MCValues
    Nothing = Nothing
    Sessions <- MCSessions
    UserOf <- MCUserOf
    Http = Http
    Titled <- MCTitled
    Hiders <- MCHiders
    Plays <- MCPlays
    Writers <- OnlyA
    Quitters <- OnlyA
    Watchers <- MCWatchers
    MaxBusy = 2
SPECIFICATION Spec
INVARIANTS TypeOK TallyIsTrue PlayersAreCounted HidingIsQuiet ScreensFollow
