SPECIFICATION Spec
SYMMETRY PackSymmetry
CONSTANTS
  Requests = {p1, p2}
  pack = pack
  film1 = film1
  film2 = film2
  e1 = e1
  e2 = e2
  f1 = f1
  f2 = f2
  None = None
  Routes = {pack}
  Files <- PackFiles
  RouteOf <- PackRouteOf
  Size <- PackSize
  Declared <- PackDeclared
  Cap = 3
  Ops = {"prepare", "season", "stream", "remove", "removeFile", "pause", "retry", "retention"}
  MayFail = TRUE
INVARIANT DownloadsSafe
PROPERTY LastRemovalTakesTorrent
