SPECIFICATION Spec
CONSTANTS
  Routes = {1, 2, 3}
  Titles <- MCTitles
  Releases <- MCReleases
  ReleasesOf <- MCReleasesOf
  TitleOf <- MCTitleOf
  Updated <- MCUpdated
  Size <- MCSize
  Disk = 5
  Incoming = 1
  Jobs = {job}
  Admissions = {admission}
  Choices <- MCChoices
  Nobody = Nobody
  MaxEvents = 1
INVARIANT RetentionSafe
PROPERTIES RetentionSteps PassesEnd
