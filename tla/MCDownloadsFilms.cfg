SPECIFICATION HFairSpec
CONSTANTS
  Requests = {p1, p2}
  pack = pack
  film1 = film1
  film2 = film2
  e1 = e1
  e2 = e2
  f1 = f1
  f2 = f2
  None = None
  Routes = {film1, film2}
  Files <- FilmFiles
  RouteOf <- FilmRouteOf
  Size <- FilmSize
  Declared <- FilmDeclared
  Cap = 3
  Ops = {"prepare", "stream", "remove", "retention"}
  MayFail = FALSE
INVARIANTS StreamsKeepTheirTorrent AdmissionsFit
PROPERTY RequestsReturn
